---- MODULE Spec2Model ----
(***************************************************************************)
(* Model of the Milka arbitrage bot (src/unnamed/part_005, lines 45-887):  *)
(* MilkaArbitrageBot.mainLoop, findOpportunity, execute, sendViaSender,    *)
(* confirmTx, PerformanceTracker and Telegram.                             *)
(*                                                                         *)
(* Units.  Amounts of the native currency are integers: lamports           *)
(* (1e-9 SOL).  Net profit is kept in thirds of a lamport, because the     *)
(* normalisation of a stablecoin profit divides by SOL_USD_APPROX = 150    *)
(* and 1e9 / (1e6 * 150) = 20/3.  Price impact and maxPriceImpact are in   *)
(* hundredths of a percent, minProfitPercent in tenths of a percent.  The  *)
(* arithmetic is exact; the code computes the same expressions in IEEE     *)
(* doubles.                                                                *)
(***************************************************************************)
EXTENDS Integers, Sequences, FiniteSets, TLC

\* ------------------------------------------------------------------------
\* Program constants
\* ------------------------------------------------------------------------

MIN_TIP_LAMPORTS == 200000
MAX_FAILURES == 5
SOL_USD_APPROX == 150
BaseFeeLamports == 5000
PriorityFeeLamports == 100000
MissingImpact == 99900
TradeAmountMicroSol == 50000
MinProfitTenths == 5
MaxPriceImpact == 100
COOLDOWN_MS == 60000
CATCH_SLEEP_MS == 5000
TRADE_SLEEP_MS == 2000
CYCLE_SLEEP_MS == 500
BUY_SETTLE_MS == 800

WSOL == "WSOL"
USDC == "USDC"
USD1 == "USD1"

BASE_MINTS ==
  << [mint |-> WSOL, symbol |-> "WSOL", decimals |-> 9],
     [mint |-> USDC, symbol |-> "USDC", decimals |-> 6],
     [mint |-> USD1, symbol |-> "USD1", decimals |-> 6] >>

\* ------------------------------------------------------------------------
\* Bounds of the model
\* ------------------------------------------------------------------------

\* Executes that record an outcome in one run: once that many are
\* recorded the aggregator offers no further opportunity.
MaxTrades == 1
\* Largest value of consecutiveFailures the environment drives the bot to,
\* counted above MAX_FAILURES.
MaxExtraFailures == 1
\* Candidates returned by one getTokenCandidates call.
MaxTokens == 1

\* ------------------------------------------------------------------------
\* findOpportunity (pure part)
\* ------------------------------------------------------------------------

RECURSIVE Pow10(_)
Pow10(n) == IF n <= 0 THEN 1 ELSE 10 * Pow10(n - 1)

\* A quote response of the aggregator.  ok: the HTTP call returned 2xx and
\* the body parsed; hasOut: outAmount is present and truthy; hasImpact:
\* priceImpactPct is present.
NotOkResp ==
  [ok |-> FALSE, hasOut |-> FALSE, outAmount |-> 0, hasImpact |-> FALSE, impact |-> 0]
NoOutResp ==
  [ok |-> TRUE, hasOut |-> FALSE, outAmount |-> 0, hasImpact |-> TRUE, impact |-> 0]
Quote(out, imp) ==
  [ok |-> TRUE, hasOut |-> TRUE, outAmount |-> out, hasImpact |-> TRUE, impact |-> imp]
QuoteNoImpact(out) ==
  [ok |-> TRUE, hasOut |-> TRUE, outAmount |-> out, hasImpact |-> FALSE, impact |-> 0]

\* parseFloat(q.priceImpactPct ?? '999')
ParseImpact(q) == IF q.hasImpact THEN q.impact ELSE MissingImpact

ImpactRejectedStrictOrEqual(q) == ParseImpact(q) >= MaxPriceImpact
\* the price-impact rejection rule
ImpactRejected(q) == ParseImpact(q) > MaxPriceImpact

\* Amount in base currency atomic units
InAmount(base) ==
  IF base.mint = WSOL
    THEN TradeAmountMicroSol * 1000
    ELSE TradeAmountMicroSol * SOL_USD_APPROX * Pow10(base.decimals - 6)

\* grossProfitSol, in thirds of a lamport
GrossProfit3(base, grossInBase) ==
  IF base.mint = WSOL
    THEN 3 * grossInBase
    ELSE grossInBase * ((3 * Pow10(9 - base.decimals)) \div SOL_USD_APPROX)

TotalFeesOneTip(tip) == tip + (BaseFeeLamports * 2) + (PriorityFeeLamports * 2)
\* totalFees, in lamports
TotalFees(tip) == (tip * 2) + (BaseFeeLamports * 2) + (PriorityFeeLamports * 2)

\* netProfit, in thirds of a lamport
NetProfit3(base, outAmount, tip) ==
  GrossProfit3(base, outAmount - InAmount(base)) - 3 * TotalFees(tip)

\* profitPct = netProfit / tradeAmountSol * 100, as a fraction num/den
ProfitPct(net3) == [num |-> net3, den |-> 30 * TradeAmountMicroSol]

\* profitPct < minProfitPercent
BelowMinProfit(pct) == pct.num * 10 < MinProfitTenths * pct.den

NoOpp == [found |-> FALSE]

AcceptedAlways(net3) == TRUE
\* the negation of `netProfit <= 0 || profitPct < minProfitPercent`
Accepted(net3) == ~(net3 <= 0 \/ BelowMinProfit(ProfitPct(net3)))

\* One iteration of the loop over BASE_MINTS: the opportunity this base
\* yields, or NoOpp when the iteration ends in `continue`.
\* r = [buy, sell, tip, tipThrows]: the two quote responses, the value
\* getDynamicTipLamports returns in this iteration, and whether it throws
\* instead (the log.debug in its catch).
EvalBase(token, base, r) ==
  IF ~r.buy.ok \/ ~r.buy.hasOut THEN NoOpp
  ELSE IF ImpactRejected(r.buy) THEN NoOpp
  ELSE IF ~r.sell.ok \/ ~r.sell.hasOut THEN NoOpp
  ELSE IF ImpactRejected(r.sell) THEN NoOpp
  ELSE IF r.tipThrows THEN NoOpp
  ELSE LET net3 == NetProfit3(base, r.sell.outAmount, r.tip)
       IN IF ~Accepted(net3) THEN NoOpp
          ELSE [found |-> TRUE,
                tokenMint |-> token.mint,
                tokenSymbol |-> <<base.symbol, token.symbol, base.symbol>>,
                buyQuote |-> r.buy,
                sellQuote |-> r.sell,
                estimatedProfit3 |-> net3,
                profitPercent |-> ProfitPct(net3)]

KeepLast(best, cand) ==
  IF cand.found THEN cand ELSE best
\* Keep only the best route across all bases
KeepBest(best, cand) ==
  IF cand.found /\ (~best.found \/ cand.estimatedProfit3 > best.estimatedProfit3)
    THEN cand ELSE best

NoCalc == [reached |-> FALSE]

\* What one iteration of the loop over BASE_MINTS computes when it gets as
\* far as the profit test: grossProfitSol and netProfit in thirds of a
\* lamport, totalFees in lamports.
CalcBase(base, r) ==
  IF \/ ~r.buy.ok \/ ~r.buy.hasOut \/ ImpactRejected(r.buy)
     \/ ~r.sell.ok \/ ~r.sell.hasOut \/ ImpactRejected(r.sell)
     \/ r.tipThrows
    THEN NoCalc
    ELSE [reached |-> TRUE,
          grossProfit3 |-> GrossProfit3(base, r.sell.outAmount - InAmount(base)),
          totalFees |-> TotalFees(r.tip),
          netProfit3 |-> NetProfit3(base, r.sell.outAmount, r.tip)]

RECURSIVE FindFrom(_, _, _, _)
FindFrom(token, resp, i, best) ==
  IF i > Len(BASE_MINTS) THEN best
  ELSE FindFrom(token, resp, i + 1,
                KeepBest(best, EvalBase(token, BASE_MINTS[i], resp[i])))

findOpportunityNoIsolation(token, resp) ==
  IF \E i \in 1..Len(BASE_MINTS) : ~resp[i].buy.ok \/ ~resp[i].sell.ok \/ resp[i].tipThrows
    THEN NoOpp
    ELSE FindFrom(token, resp, 1, NoOpp)

\* findOpportunity(token), given the responses resp[i] the environment
\* gives while base i is tried
findOpportunity(token, resp) == FindFrom(token, resp, 1, NoOpp)

\* ------------------------------------------------------------------------
\* getTokenCandidates
\* ------------------------------------------------------------------------

\* .slice(0, 60)
CANDIDATE_CAP == 60

\* (pair.volume?.h24 ?? 0) < 50_000, (pair.liquidity?.usd ?? 0) < 20_000
MIN_VOLUME_H24 == 50000
MIN_LIQUIDITY_USD == 20000

SEED_TOKENS ==
  << [mint |-> "DezXAZ8z7PnrnRJjz3wXBoRgixCa6xjnB7YaB1pPB263", symbol |-> "BONK"],
     [mint |-> "EKpQGSJtjMFqKZ9KQanSqYXRYQAbKubwyIzACJgs5zU", symbol |-> "WIF"],
     [mint |-> "MEW1gQWJ3nEXg2qgERiKu7FAFj79PHvQVREQUzScPP5", symbol |-> "MEW"],
     [mint |-> "USDSwr9ApdHk5bvJKMjzff41FfuX8bSxdKcR81vTwcA", symbol |-> "USDS"],
     [mint |-> "JUPyiwrYJFskUPiHa7hkeR8VUtAeFoSYbKedZNsDvCN", symbol |-> "JUP"],
     [mint |-> "orcaEKTdK7LKz57vaAYr9QeNsVEPfiu6QeMU1kektZE", symbol |-> "ORCA"],
     [mint |-> "RLBxxFkseAZ4RgJH3Sqn8jXxhmGoz9jWxDNtXed4hmN", symbol |-> "RLB"],
     [mint |-> "7vfCXTUXx5WJV5JADk17DUJ4ksgau7utNKj4b963voxs", symbol |-> "ETH"],
     [mint |-> "Es9vMFrzaCERmJfrF4H2FYD4KCoNkY11McCe8BenwNYB", symbol |-> "USDT"],
     [mint |-> "mSoLzYCxHdYgdzU16g5QSh3i5K3z3KZK7ytfqcJm7So", symbol |-> "mSOL"],
     [mint |-> "bSo13r4TkiE4KumL71LsHTPpL2euBYLFx6h9HP3piy1", symbol |-> "bSOL"],
     [mint |-> "HZ1JovNiVvGqszpscSdjH7LMHnqQyjr5miqBzuVQMHBH", symbol |-> "PYTH"],
     [mint |-> "jtojtomepa8bdph4n1qyplt5yx1kvZFvkKNzursvse", symbol |-> "JTO"],
     [mint |-> "WENWENvqqNya429ubCdR81ZmD69brwQaaBYY6p3LCpk", symbol |-> "WEN"],
     [mint |-> "nosXBVoaCTtYdLvKY6Csb4AC8JCdQKKAaWYtx2ZMoo7", symbol |-> "NOS"],
     [mint |-> "TNSRxcUxoT9xBG3de7A4bBEkbdZtaQjhFLRLbSCxJQM", symbol |-> "TNSR"],
     [mint |-> "BZLbGTNCSFfoth2GYDtwr7e4imWzpR5jqcUuGEwr646K", symbol |-> "IO"],
     [mint |-> "GFX1ZjR2P15tmrSwow6FjyDYcEkoNAbSVmH7ULqdnhA2", symbol |-> "GFXP"],
     [mint |-> "A9mUU4qviSctJVPJdBJWkb28deg915LYJKrzQ19ji3FM", symbol |-> "USDCet"],
     [mint |-> "2b1kV6DkPAnxd5ixfnxCpjxmKwqjjaYmCZfHsFu24GXo", symbol |-> "PYUSD"] >>

\* const baseMints = this.BASE_MINTS.map(b => b.mint)
baseMints == {BASE_MINTS[i].mint : i \in 1..Len(BASE_MINTS)}

\* One pair of the feed's answer: chainId, baseToken.address,
\* baseToken.symbol, volume.h24, liquidity.usd
Pair(chainId, address, symbol, h24, usd) ==
  [chainId |-> chainId, address |-> address, symbol |-> symbol,
   h24 |-> h24, usd |-> usd]

\* The four "continue" of the loop over data.pairs, then
\* if (!mint || seen.has(mint)) continue
PairSkipped(pair, seen) ==
  \/ pair.chainId # "solana"
  \/ pair.address \in baseMints
  \/ pair.h24 < MIN_VOLUME_H24
  \/ pair.usd < MIN_LIQUIDITY_USD
  \/ pair.address = ""
  \/ pair.address \in seen

\* const seen = new Set<string>(); const candidates = []
NoCandidates == [candidates |-> <<>>, seen |-> {}]

\* for (const pair of data.pairs) { ...; seen.add(mint); candidates.push(..) }
\* acc: the array candidates and the Set seen so far
RECURSIVE ScanPairs(_, _)
ScanPairs(pairs, acc) ==
  IF pairs = <<>> THEN acc
  ELSE LET pair == Head(pairs)
       IN IF PairSkipped(pair, acc.seen)
            THEN ScanPairs(Tail(pairs), acc)
            ELSE ScanPairs(Tail(pairs),
                           [candidates |->
                              Append(acc.candidates,
                                     [mint |-> pair.address, symbol |-> pair.symbol,
                                      volume24h |-> pair.h24]),
                            seen |-> acc.seen \cup {pair.address}])

\* if (!entry.mint || seen.has(entry.mint)) continue;
\* if (baseMints.includes(entry.mint)) continue
EntrySkipped(entry, seen) ==
  \/ entry.mint = ""
  \/ entry.mint \in seen
  \/ entry.mint \in baseMints

\* for (const entry of raw) { ...; candidates.push({..., volume24h: 0}) }
RECURSIVE ScanWatchlist(_, _)
ScanWatchlist(raw, acc) ==
  IF raw = <<>> THEN acc
  ELSE LET entry == Head(raw)
       IN IF EntrySkipped(entry, acc.seen)
            THEN ScanWatchlist(Tail(raw), acc)
            ELSE ScanWatchlist(Tail(raw),
                               [candidates |->
                                  Append(acc.candidates,
                                         [mint |-> entry.mint, symbol |-> entry.symbol,
                                          volume24h |-> 0]),
                                seen |-> acc.seen \cup {entry.mint}])

\* candidates.sort((a, b) => b.volume24h - a.volume24h): descending by
\* volume24h, entries of equal volume keep their order (Array.prototype.sort
\* is stable)
RECURSIVE SortByVolume(_)
SortByVolume(s) ==
  IF s = <<>> THEN <<>>
  ELSE LET top == CHOOSE v \in {s[i].volume24h : i \in 1..Len(s)} :
                    \A i \in 1..Len(s) : s[i].volume24h <= v
       IN SelectSeq(s, LAMBDA c : c.volume24h = top)
            \o SortByVolume(SelectSeq(s, LAMBDA c : c.volume24h < top))

SliceAll(s) == s

\* .slice(0, 60)
Slice(s) == SubSeq(s, 1, IF Len(s) < CANDIDATE_CAP THEN Len(s) ELSE CANDIDATE_CAP)

\* The call ends in an exception and returns no list
CandThrew == [threw |-> TRUE, list |-> <<>>]

\* getTokenCandidates(): feed is what fetch gives for the one chunk of the
\* 20 seed mints ("throws": fetch or res.json() throws, "notOk": !res.ok),
\* watch is watchlist.json ("absent", "unreadable": readFileSync or
\* JSON.parse throws, "list"), logFails is whether a write of log.debug
\* throws. log.debug is called in the catch of the chunk, after every
\* watchlist entry pushed, and in the catch of the watchlist block; the
\* second and third call sites are such that a failing write leaves the
\* function by an exception.
getTokenCandidates(feed, watch, logFails) ==
  LET none == NoCandidates
      a == IF feed.status = "ok" THEN ScanPairs(feed.pairs, none) ELSE none
      b == IF watch.file = "list"
             THEN ScanWatchlist(watch.raw, a) ELSE a
      threw == logFails /\ \/ feed.status = "throws"
                           \/ watch.file = "unreadable"
                           \/ Len(b.candidates) > Len(a.candidates)
  IN IF threw THEN CandThrew
     ELSE [threw |-> FALSE, list |-> Slice(SortByVolume(b.candidates))]


\* ------------------------------------------------------------------------
\* ArbitrageStrategy (src/unnamed/part_006)
\* ------------------------------------------------------------------------

\* What a call gives back when the method body ends without a return
\* statement: undefined, no list
Undefined == [defined |-> FALSE, list |-> <<>>]

\* identifyOpportunities(marketData) {
\*     // Logic to identify arbitrage opportunities based on market data
\* }
identifyOpportunities(data) == Undefined

\* ------------------------------------------------------------------------
\* The graduation watcher (src/src/watcher.ts)
\* ------------------------------------------------------------------------

MAX_WATCHLIST == 50
MAX_AGE_MS == 2 * 60 * 60 * 1000

\* let reconnectDelay = 2_000; reconnectDelay = 2_000 (on open)
RECONNECT_MIN_MS == 2000
\* Math.min(reconnectDelay * 2, 60_000)
RECONNECT_MAX_MS == 60000

NextDelayUncapped(delay) == delay * 2
\* reconnectDelay = Math.min(reconnectDelay * 2, 60_000)
NextDelay(delay) ==
  IF delay * 2 < RECONNECT_MAX_MS THEN delay * 2 ELSE RECONNECT_MAX_MS

\* const age = Date.now() - new Date(graduatedAt).getTime(): a number of
\* milliseconds, or NaN for a date that does not parse
Age(ms) == [nan |-> FALSE, ms |-> ms]
NaNAge == [nan |-> TRUE, ms |-> 0]

\* if (isNaN(age) || age > MAX_AGE_MS) return false
TooOld(age) == age.nan \/ age.ms > MAX_AGE_MS

\* list.find(t => t.mint === mint)
Listed(list, mint) == \E i \in 1..Len(list) : list[i].mint = mint

TrimFront(list) ==
  IF Len(list) > MAX_WATCHLIST
    THEN SubSeq(list, Len(list) - MAX_WATCHLIST + 1, Len(list))
    ELSE list

\* while (list.length > MAX_WATCHLIST) list.pop()
Trim(list) ==
  IF Len(list) > MAX_WATCHLIST THEN SubSeq(list, 1, MAX_WATCHLIST) ELSE list

addToWatchlistUnchecked(list, seen, seenFile, mint, age) ==
  [ret |-> TRUE, list |-> Trim(<<[mint |-> mint]>> \o list),
   seen |-> seen \cup {mint}, seenFile |-> seen \cup {mint}]

\* addToWatchlist(seen, mint, symbol, source, graduatedAt), given the
\* content of watchlist.json and of the seen-set file: the value returned,
\* and the two files and the Set seen after the call. Both files are read
\* and written without an error (a file that does not exist reads as
\* empty).
addToWatchlist(list, seen, seenFile, mint, age) ==
  IF mint \in seen \/ TooOld(age)
    THEN [ret |-> FALSE, list |-> list, seen |-> seen, seenFile |-> seenFile]
  ELSE IF Listed(list, mint)
    THEN [ret |-> FALSE, list |-> list, seen |-> seen \cup {mint},
          seenFile |-> seenFile]
  ELSE [ret |-> TRUE, list |-> Trim(<<[mint |-> mint]>> \o list),
        seen |-> seen \cup {mint}, seenFile |-> seen \cup {mint}]


\* ------------------------------------------------------------------------
\* The tip of a transaction: getDynamicTipLamports and buildSwapTx
\* ------------------------------------------------------------------------

HELIUS_TIP_ACCOUNTS ==
  << "4ACfpUFoaSD9bfPdeu6DBt89gB6ENTeHBXCAi87NhDEE",
     "D2L6yPZ2FmmmTKPgzaMKdhu6EWZcTpLy1Vhx8uvZe7NZ",
     "9bnz4RShgq1hAnLnZbP8kbgBg1kEmcJBYQq3gQbmnSta",
     "5VY91ws6B2hMmBFRsXkoAAdsPHBJwRfBht4DXox3xkwn",
     "2nyhqdwKcJZR2vcqCyrYsaPVdAnFoJjiksCXJ7hfEYgD",
     "2q5pghRs6arqVjRvT5gfgWfWcHWmw1ZuCzphgd5KfWGJ",
     "wyvPkWjVZz1M8fHQnMMCDTQDbkManefNNhweYk5WkcF",
     "3KCKozbAaF75qEU33jtzozcJ29yJuaLJTy2jFdzUY8bT",
     "4vieeGHPYPG2MmyPRcYjdiDmmhN3ww7hsFNap8pVN3Ey",
     "4TQLFNWK8AovT1gFvda5jfw2oJeRMKEmw7aH6MGBJ3or" >>

\* if (now - this.tipCacheTime < 5 * 60_000) return this.cachedTipLamports
TIP_CACHE_MS == 5 * 60000

\* Math.ceil(tip75 * 1e9), tip75 given in tenths of a lamport
CeilLamports(tenths) == -((-tenths) \div 10)

MaxNoFloor(a, b) == a

Max(a, b) == IF a > b THEN a ELSE b

\* Math.max(Math.ceil(tip75 * 1e9), MIN_TIP_LAMPORTS)
FlooredTip(tenths) == Max(CeilLamports(tenths), MIN_TIP_LAMPORTS)

\* getDynamicTipLamports(), given the two fields, the clock and what the
\* tip-floor feed does ("throws": fetch or res.json() throws, "notOk":
\* !res.ok, "ok": data[0].landed_tips_75th_percentile is a number, given in
\* tenths of a lamport, or is not a number), and whether a write of
\* log.debug throws: the fields after the call, and the value returned
\* unless the call ends in an exception
\* The rest of getDynamicTipLamports once the tip-floor request of a call
\* that began at `clock` is answered, the fields being what they are then
TipFetched(cached, cacheTime, clock, feed, logFails) ==
  IF feed.status = "ok" /\ feed.isNumber
    THEN [threw |-> logFails, tip |-> FlooredTip(feed.tenths),
          cached |-> FlooredTip(feed.tenths), cacheTime |-> clock]
  ELSE [threw |-> feed.status = "throws" /\ logFails, tip |-> cached,
        cached |-> cached, cacheTime |-> cacheTime]

\* if (now - this.tipCacheTime < 5 * 60_000)
CacheFresh(cacheTime, clock) == clock - cacheTime < TIP_CACHE_MS

getDynamicTipLamports(cached, cacheTime, clock, feed, logFails) ==
  IF CacheFresh(cacheTime, clock)
    THEN [threw |-> FALSE, tip |-> cached, cached |-> cached, cacheTime |-> cacheTime]
  ELSE TipFetched(cached, cacheTime, clock, feed, logFails)

\* An instruction of a transaction; lamports and toPubkey matter for a
\* transfer of the system program only
Instruction(program, toPubkey, lamports) ==
  [program |-> program, toPubkey |-> toPubkey, lamports |-> lamports]

\* buildSwapTx returns null
NoTx == [built |-> FALSE, instructions |-> <<>>]

\* msg.instructions.push(SystemProgram.transfer({..., toPubkey: new
\* PublicKey(tipAccount), lamports: tipLamports })), tipAccount being
\* HELIUS_TIP_ACCOUNTS[Math.floor(Math.random() * length)]
WithTip(instructions, pick, tipLamports) ==
  Append(instructions,
         Instruction("system.transfer", HELIUS_TIP_ACCOUNTS[pick + 1], tipLamports))

\* buildSwapTx(quote), given the answer of the swap endpoint ("notOk",
\* "noTx": no swapTransaction, "bad": deserialize throws, "ok" with the
\* instructions of the transaction), the result of getDynamicTipLamports
\* and the value of Math.floor(Math.random() * length)
buildSwapTx(swap, tip, pick) ==
  IF swap.status # "ok" \/ tip.threw THEN NoTx
  ELSE [built |-> TRUE, instructions |-> WithTip(swap.instructions, pick, tip.tip)]


\* ------------------------------------------------------------------------
\* State
\* ------------------------------------------------------------------------

\* mainLoop: position, fields of the bot, the local circuitCooldown, the
\* candidates of this cycle still to scan.
VARIABLES pc, isRunning, consecutiveFailures, circuitCooldown, tokensLeft

\* execute: position, the leg being submitted, the opportunity, the value
\* sendViaSender returned per leg, whether the loop of confirmTx has gone
\* round at least once.
VARIABLES ex, leg, opp, ret, polled

\* The chain: per leg the fate of its transaction, and whether the block
\* height has passed the lastValidBlockHeight of the leg being confirmed.
VARIABLES chain, heightPassed

\* PerformanceTracker.stats, and its value when the current execute began.
VARIABLES stats, entry

\* History of the latest execute, kept until the main loop has slept after
\* it: the steps taken, relay submissions per leg, notifications posted to
\* the sink, the outcome.
VARIABLES steps, submits, outbox, verdict

\* The last step of the main flow: the outbound call it made and the sleep
\* it completed (ms, 0 for none).  failRun: iterations of the while loop in
\* a row that ended in mainLoop's catch.
VARIABLES io, lastSleep, failRun

\* Configuration (Telegram.enabled, cfg.logLevel), the periodic task that
\* ran last, whether the process is alive, its exit code.
VARIABLES tgEnabled, logLevel, bg, alive, exitCode

\* One call of findOpportunity: the candidate, the responses of the
\* environment per base, the result, and what was computed per base.
VARIABLES fToken, fResp, fOut, fPc, fCalc

\* One call of getTokenCandidates: the response of the market-data feed,
\* the content of watchlist.json, whether a debug-level log write fails,
\* the result, and the position of the call.
VARIABLES cFeed, cWatch, cLogFails, cOut, cPc

\* The watcher process: watchlist.json, logs/watcher-seen.json, the Set
\* seen of the running process, how many new mints the discovery sources
\* have offered, and of the last call of addToWatchlist its mint, the value
\* it returned, the watchlist before it and whether the mint had been
\* processed by an earlier call; the mints processed so far and, per mint,
\* the number of the add that put it into the list last.
VARIABLES wList, wSeenFile, wSeen, wOffered, wMint, wRet, wPrev, wKnown,
          wProcessed, wSince, wAdds
\* wRuns: where each run of pollAll stands; wMsgs: the websocket messages
\* handled; wAdded: the mints for which addToWatchlist has returned true
VARIABLES wRuns, wMsgs, wAdded

\* The tip: the fields cachedTipLamports and tipCacheTime, the clock
\* (Date.now(), in milliseconds), and what the last call of buildSwapTx
\* returned.
VARIABLES cachedTipLamports, tipCacheTime, now, builtTx
\* feeTip: what getDynamicTipLamports returned to the latest findOpportunity
\* (0: none); builds: the two buildSwapTx calls of an execute
VARIABLES feeTip, builds

\* The process: the required settings absent from the environment at
\* startup, and what a stop signal has done (whether the handler ran, the
\* summary was written, and what became of the shutdown notification),
\* and whether the main loop is suspended at an await that never settles.
VARIABLES envMissing, shutdown, hung

loopVars == <<pc, isRunning, consecutiveFailures, circuitCooldown, tokensLeft>>
execVars == <<ex, leg, opp, ret, polled>>
chainVars == <<chain, heightPassed>>
statVars == <<stats, entry>>
histVars == <<steps, submits, outbox, verdict>>
stepVars == <<io, lastSleep, failRun>>
envVars == <<tgEnabled, logLevel, bg, alive, exitCode>>
findVars == <<fToken, fResp, fOut, fPc, fCalc>>
candVars == <<cFeed, cWatch, cLogFails, cOut, cPc>>
watchVars == <<wList, wSeenFile, wSeen, wOffered, wMint, wRet, wPrev, wKnown,
               wProcessed, wSince, wAdds, wRuns, wMsgs, wAdded>>
tipVars == <<cachedTipLamports, tipCacheTime, now, builtTx, feeTip, builds>>
procVars == <<envMissing, shutdown, hung>>
\* ArbitrageStrategy (src/unnamed/part_006): the market data handed to
\* identifyOpportunities, what the call returned, and whether it was made
VARIABLES marketData, opportunities, sPc
stratVars == <<marketData, opportunities, sPc>>

\* The executes the aggregator's answers allow in a behaviour, and the
\* executes in a row that ended in a failed trade outcome (build failure,
\* buy failure, stranded sell) since the last successful trade or cooldown,
\* and what the latest iteration of confirmTx's loop observed for the leg
\* being confirmed
VARIABLES tradeLimit, failedInRow, lastPoll
runVars == <<tradeLimit, failedInRow, lastPoll>>

\* startPumpFunWatcher (src/src/watcher.ts): the socket of the latest
\* connect() ("Connecting" until it opens, "Subscribed" once open,
\* "Disconnected" once closed), reconnectDelay, the sockets not yet closed,
\* the reconnect timers not yet fired and the delay of the latest one, the
\* closes since the latest open, and the calls of connect() so far
VARIABLES wsState, reconnectDelay, wsSockets, wsTimers, wsScheduled, wsCloses, wsConnects
wsVars == <<wsState, reconnectDelay, wsSockets, wsTimers, wsScheduled, wsCloses, wsConnects>>

sideVars == <<findVars, candVars, watchVars, tipVars, procVars, stratVars, wsVars>>
pureVars == <<sideVars, runVars>>
botVars == <<loopVars, execVars, chainVars, statVars, histVars, stepVars, envVars>>
vars == <<botVars, pureVars>>

Legs == {"buy", "sell"}

FreshStats ==
  [totalTrades |-> 0, successfulTrades |-> 0, failedTrades |-> 0,
   simulationSkipped |-> 0, totalProfit3 |-> 0, totalLoss3 |-> 0, netProfit3 |-> 0]

Abs(x) == IF x < 0 THEN 0 - x ELSE x

\* PerformanceTracker.record(success, profitSol)
Record(s, success, profit3) ==
  LET s1 == [s EXCEPT !.totalTrades = @ + 1]
      s2 == IF success
              THEN IF profit3 > 0
                     THEN [s1 EXCEPT !.successfulTrades = @ + 1, !.totalProfit3 = @ + profit3]
                     ELSE [s1 EXCEPT !.successfulTrades = @ + 1, !.totalLoss3 = @ + Abs(profit3)]
              ELSE [s1 EXCEPT !.failedTrades = @ + 1]
  IN [s2 EXCEPT !.netProfit3 = s2.totalProfit3 - s2.totalLoss3]

RecordSimSkipAsTrade(s) == [s EXCEPT !.simulationSkipped = @ + 1, !.totalTrades = @ + 1]
\* PerformanceTracker.recordSimSkip()
RecordSimSkip(s) == [s EXCEPT !.simulationSkipped = @ + 1]

\* Telegram.send(msg): the messages posted to the sink after the call
TelegramSend(box, msg) == IF tgEnabled THEN Append(box, msg) ELSE box

\* What becomes of the fetch of Telegram.send: it resolves, or it rejects
\* (transport error).
SendOutcomes == {"ok", "error"}

SendRaisesUncaught(out) == tgEnabled /\ out = "error"
\* Telegram.send: if (!this.enabled) return; try { await fetch(...) }
\* catch { }: whether the call raises into its caller
SendRaises(out) == FALSE

\* The call the step has made, as the later steps see it
SendIo(out) == IF tgEnabled /\ out = "error" THEN "telegram_error" ELSE "telegram"

\* The signature the relay returns for a leg of the current execute.
Sig(l) == <<l, entry.totalTrades + entry.simulationSkipped>>

StrandedMsg(o) == [kind |-> "stranded", mint |-> o.tokenMint, buySig |-> Sig("buy")]
ProfitMsg(o) == [kind |-> "profit", mint |-> o.tokenMint, buySig |-> Sig("buy")]
CooldownMsg == [kind |-> "cooldown", mint |-> "-", buySig |-> <<"-", 0>>]

\* Candidates findOpportunity is applied to, and the candidates
\* getTokenCandidates returns to the main loop.
Tokens == {[mint |-> "mintA", symbol |-> "TKA"], [mint |-> "mintB", symbol |-> "TKB"]}
LoopTokens == {[mint |-> "mintA", symbol |-> "TKA"]}

\* ------------------------------------------------------------------------
\* Initial state: the bot constructed, start() not yet run
\* ------------------------------------------------------------------------

FindIdle ==
  /\ fToken = [mint |-> "mintA", symbol |-> "TKA"]
  /\ fResp = [i \in 1..Len(BASE_MINTS) |-> [buy |-> NotOkResp, sell |-> NotOkResp, tip |-> MIN_TIP_LAMPORTS, tipThrows |-> FALSE]]
  /\ fOut = NoOpp
  /\ fPc = "idle"
  /\ fCalc = [i \in 1..Len(BASE_MINTS) |-> NoCalc]

\* getTokenCandidates is not being called
CandIdle ==
  /\ cFeed = [status |-> "notOk", pairs |-> <<>>]
  /\ cWatch = [file |-> "absent", raw |-> <<>>]
  /\ cLogFails = FALSE
  /\ cOut = CandThrew
  /\ cPc = "idle"

\* The watcher has not started
\* The runs of pollAll that can be under way at once
Runs == {1, 2}

\* No run of pollAll has begun
NoRuns == [r \in Runs |-> [pc |-> "idle", left |-> <<>>, mint |-> ""]]

WatchIdle ==
  /\ wList = <<>>
  /\ wSeenFile = {}
  /\ wSeen = {}
  /\ wOffered = 0
  /\ wMint = ""
  /\ wRet = FALSE
  /\ wPrev = <<>>
  /\ wKnown = FALSE
  /\ wProcessed = {}
  /\ wSince = <<>>
  /\ wAdds = 0
  /\ wRuns = NoRuns
  /\ wMsgs = 0
  /\ wAdded = {}

\* No buildSwapTx call is under way
NoBuilds == [l \in Legs |-> [pc |-> "idle", tip |-> 0]]

\* The fields of the tip as constructed; no transaction built

TipIdle ==
  /\ cachedTipLamports = MIN_TIP_LAMPORTS
  /\ tipCacheTime = 0
  /\ now = 0
  /\ builtTx = NoTx
  /\ feeTip = 0
  /\ builds = NoBuilds

\* No stop signal has arrived
NoShutdown == [signalled |-> FALSE, summary |-> FALSE, notice |-> "none"]

\* The fields of the bot as constructed
\* No iteration of confirmTx's loop has run for the leg
NoPoll == [threw |-> FALSE, passed |-> FALSE, status |-> "none"]

\* The loop of confirmTx was left by its condition: 15 s have passed
TimedOut == [threw |-> FALSE, passed |-> FALSE, status |-> "timeout"]

BotFields ==
  /\ failedInRow = 0
  /\ lastPoll = NoPoll
  /\ isRunning = FALSE
  /\ consecutiveFailures = 0
  /\ circuitCooldown = FALSE
  /\ tokensLeft = 0
  /\ ex = "idle"
  /\ leg = "buy"
  /\ opp = NoOpp
  /\ ret = [l \in Legs |-> "none"]
  /\ polled = FALSE
  /\ chain = [l \in Legs |-> "unsent"]
  /\ heightPassed = FALSE
  /\ stats = FreshStats
  /\ entry = FreshStats
  /\ steps = <<>>
  /\ submits = [l \in Legs |-> 0]
  /\ outbox = <<>>
  /\ verdict = "none"
  /\ io = "none"
  /\ lastSleep = 0
  /\ failRun = 0
  /\ tgEnabled \in BOOLEAN
  /\ logLevel \in {"info", "debug"}
  /\ bg = "none"
  /\ alive = TRUE
  /\ exitCode = 0

\* The state after new MilkaArbitrageBot() with the required settings
\* present, before start()
\* No call of ArbitrageStrategy is under way
StratIdle == marketData = <<>> /\ opportunities = Undefined /\ sPc = "idle"

\* startPumpFunWatcher has not been called
WsIdle ==
  /\ wsState = "Disconnected" /\ reconnectDelay = RECONNECT_MIN_MS
  /\ wsSockets = 0 /\ wsTimers = 0 /\ wsScheduled = 0 /\ wsCloses = 0 /\ wsConnects = 0

BotInit ==
  /\ StratIdle
  /\ WsIdle
  /\ tradeLimit = MaxTrades
  /\ pc = "start"
  /\ BotFields
  /\ envMissing = {}
  /\ shutdown = NoShutdown
  /\ hung = FALSE

Init == BotInit /\ FindIdle /\ CandIdle /\ WatchIdle /\ TipIdle

\* ------------------------------------------------------------------------
\* Environment of the main flow
\* ------------------------------------------------------------------------

\* A synchronous log write (Logger.write, fs.appendFileSync) may throw.
\* The environment stops failing once consecutiveFailures is at the bound.
CanThrow == consecutiveFailures < MAX_FAILURES + MaxExtraFailures

\* Logger.info / success / warn / error
LogOutcomes == IF CanThrow THEN {"ok", "throw"} ELSE {"ok"}

\* Logger.debug: writes only when the level is 'debug'
DebugOutcomes == IF logLevel = "debug" THEN LogOutcomes ELSE {"ok"}

\* Pipelines that recorded an outcome so far.
Executions == stats.totalTrades + stats.simulationSkipped

GoodQuote(base, gross) ==
  [buy |-> Quote(1000, 50), sell |-> Quote(InAmount(base) + gross, 50), tip |-> MIN_TIP_LAMPORTS, tipThrows |-> FALSE]
NoQuote == [buy |-> NotOkResp, sell |-> NotOkResp, tip |-> MIN_TIP_LAMPORTS, tipThrows |-> FALSE]

\* Responses of the aggregator offered to the main loop: no base quotes,
\* or the first base quotes a profitable round trip (1 000 000 lamports
\* gross on 50 000 000), one whose gross gain is less than the fees, or
\* one that returns less than was put in.
LoopResponses ==
  { [i \in 1..Len(BASE_MINTS) |-> NoQuote] }
  \cup { [i \in 1..Len(BASE_MINTS) |-> IF i = 1 THEN GoodQuote(BASE_MINTS[i], g) ELSE NoQuote] :
           g \in {1000000, 100000, 0 - 1000000} }

OfferedResponses ==
  IF Executions < tradeLimit
    THEN LoopResponses
    ELSE {r \in LoopResponses : \A t \in LoopTokens : ~findOpportunity(t, r).found}

\* The history of the latest execute is dropped.
ForgetExecute ==
  /\ leg' = "buy"
  /\ opp' = NoOpp
  /\ ret' = [l \in Legs |-> "none"]
  /\ polled' = FALSE
  /\ chain' = [l \in Legs |-> "unsent"]
  /\ heightPassed' = FALSE
  /\ entry' = stats
  /\ steps' = <<>>
  /\ submits' = [l \in Legs |-> 0]
  /\ outbox' = <<>>
  /\ verdict' = "none"
  /\ lastPoll' = NoPoll

execHist == <<leg, opp, ret, polled, chain, heightPassed, entry, steps, submits, outbox, verdict>>

\* ------------------------------------------------------------------------
\* start
\* ------------------------------------------------------------------------

\* start(): the banner, getBalance, warmSenderConnection, the start
\* notification, then isRunning = true, the three setInterval calls and
\* mainLoop().  A getBalance or a log write that throws rejects start():
\* main().catch exits with code 1.
Start ==
  /\ alive /\ pc = "start"
  /\ \E startOk \in BOOLEAN :
       IF startOk
         THEN /\ isRunning' = TRUE
              /\ pc' = "while"
              /\ UNCHANGED <<alive, exitCode>>
         ELSE /\ alive' = FALSE
              /\ exitCode' = 1
              /\ UNCHANGED <<isRunning, pc>>
  /\ io' = "rpc" /\ lastSleep' = 0
  /\ UNCHANGED <<consecutiveFailures, circuitCooldown, tokensLeft, failRun>>
  /\ UNCHANGED <<ex, execHist, stats, tgEnabled, logLevel, bg, pureVars>>

\* ------------------------------------------------------------------------
\* mainLoop
\* ------------------------------------------------------------------------

\* while (this.isRunning) { try { if (circuitCooldown) ...
LoopTop ==
  /\ alive /\ pc = "while"
  /\ pc' = IF ~isRunning THEN "returned"
           ELSE IF circuitCooldown THEN "cooldown_warn" ELSE "scan"
  /\ io' = "none" /\ lastSleep' = 0
  /\ UNCHANGED <<isRunning, consecutiveFailures, circuitCooldown, tokensLeft, failRun>>
  /\ UNCHANGED <<ex, execHist, stats, envVars, pureVars>>

\* this.log.warn('Circuit breaker: cooling down 60s...')
CooldownWarn ==
  /\ alive /\ pc = "cooldown_warn"
  /\ \E out \in LogOutcomes :
       pc' = IF out = "throw" THEN "catch" ELSE "cooldown_notify"
  /\ io' = "none" /\ lastSleep' = 0
  /\ UNCHANGED <<isRunning, consecutiveFailures, circuitCooldown, tokensLeft, failRun>>
  /\ UNCHANGED <<ex, execHist, stats, envVars, pureVars>>

\* await this.tg.send('Circuit breaker tripped. Cooling 60s...')
CooldownNotify ==
  /\ alive /\ pc = "cooldown_notify"
  /\ \E out \in SendOutcomes :
       /\ pc' = IF SendRaises(out) THEN "catch" ELSE "cooldown_sleep"
       /\ io' = SendIo(out)
  /\ outbox' = TelegramSend(<<>>, CooldownMsg)
  /\ lastSleep' = 0
  /\ UNCHANGED <<isRunning, consecutiveFailures, circuitCooldown, tokensLeft, failRun>>
  /\ UNCHANGED <<ex, leg, opp, ret, polled, chain, heightPassed, entry, steps, submits, verdict>>
  /\ UNCHANGED <<stats, envVars, pureVars>>

CooldownEndKeepCount(n) == n
\* this.consecutiveFailures = 0 (after the cooldown)
CooldownEndCount(n) == 0

\* the argument of the sleep in the cooldown branch
CooldownSleep == COOLDOWN_MS

\* await this.sleep(60_000) completes; circuitCooldown = false;
\* consecutiveFailures = 0
CooldownEnd ==
  /\ alive /\ pc = "cooldown_sleep"
  /\ lastSleep' = CooldownSleep
  /\ circuitCooldown' = FALSE
  /\ failedInRow' = 0
  /\ consecutiveFailures' = CooldownEndCount(consecutiveFailures)
  /\ pc' = "scan"
  /\ io' = "none"
  /\ outbox' = <<>>
  /\ UNCHANGED <<isRunning, tokensLeft, failRun>>
  /\ UNCHANGED <<ex, leg, opp, ret, polled, chain, heightPassed, entry, steps, submits, verdict>>
  /\ UNCHANGED <<stats, envVars, sideVars, tradeLimit, lastPoll>>

\* const tokens = await this.getTokenCandidates(); log.debug('Scanning').
\* getTokenCandidates throws only from the log.debug in its catch blocks.
Scan ==
  /\ alive /\ pc = "scan"
  /\ \E n \in 0..MaxTokens, out \in DebugOutcomes :
       IF out = "throw"
         THEN pc' = "catch" /\ UNCHANGED tokensLeft
         ELSE pc' = "for" /\ tokensLeft' = n
  /\ io' = "candidates" /\ lastSleep' = 0
  /\ UNCHANGED <<isRunning, consecutiveFailures, circuitCooldown, failRun>>
  /\ UNCHANGED <<ex, execHist, stats, envVars, pureVars>>

\* for (const token of tokens) { if (!this.isRunning) break;
\*   const opp = await this.findOpportunity(token); if (!opp) continue;
ForFind ==
  /\ alive /\ pc = "for" /\ tokensLeft > 0 /\ isRunning
  /\ \E token \in LoopTokens, r \in OfferedResponses :
       LET o == findOpportunity(token, r)
       IN IF o.found
            THEN /\ opp' = o
                 /\ pc' = "log_opp"
                 /\ UNCHANGED tokensLeft
            ELSE /\ tokensLeft' = tokensLeft - 1
                 /\ UNCHANGED <<opp, pc>>
  /\ io' = "quote" /\ lastSleep' = 0
  /\ UNCHANGED <<isRunning, consecutiveFailures, circuitCooldown, failRun>>
  /\ UNCHANGED <<ex, leg, ret, polled, chain, heightPassed, entry, steps, submits, outbox, verdict>>
  /\ UNCHANGED <<stats, envVars, pureVars>>

\* The loop over the tokens is done (or left by break): await this.sleep(500)
\* completes and the iteration ends without an error.
CycleEnd ==
  /\ alive /\ pc = "for" /\ (tokensLeft = 0 \/ ~isRunning)
  /\ lastSleep' = CYCLE_SLEEP_MS
  /\ failRun' = 0
  /\ pc' = "while"
  /\ io' = "none"
  /\ UNCHANGED <<isRunning, consecutiveFailures, circuitCooldown, tokensLeft>>
  /\ UNCHANGED <<ex, execHist, stats, envVars, pureVars>>

\* this.log.info('OPPORTUNITY ...'); then execute(opp) is called and runs
\* to its first await
CallExecute ==
  /\ alive /\ pc = "log_opp"
  /\ \E out \in LogOutcomes :
       IF out = "throw"
         THEN /\ pc' = "catch"
              /\ opp' = NoOpp
              /\ UNCHANGED <<ex, leg, ret, polled, chainVars, entry, histVars>>
         ELSE /\ pc' = "await_execute"
              /\ ex' = "build"
              /\ leg' = "buy"
              /\ ret' = [l \in Legs |-> "none"]
              /\ polled' = FALSE
              /\ chain' = [l \in Legs |-> "unsent"]
              /\ heightPassed' = FALSE
              /\ entry' = stats
              /\ steps' = <<>>
              /\ submits' = [l \in Legs |-> 0]
              /\ outbox' = <<>>
              /\ verdict' = "none"
              /\ UNCHANGED opp
  /\ io' = "none" /\ lastSleep' = 0
  /\ UNCHANGED <<isRunning, consecutiveFailures, circuitCooldown, tokensLeft, failRun>>
  /\ UNCHANGED <<stats, envVars, pureVars>>

AwaitedNever(e) == TRUE
\* await this.execute(opp): the promise of execute has resolved
Awaited(e) == e = "idle"

\* this.consecutiveFailures = 0 (after execute)
AfterExecuteCount(n) == 0

\* execute has returned: consecutiveFailures = 0; await this.sleep(2_000)
AfterExecute ==
  /\ alive /\ pc = "await_execute" /\ Awaited(ex)
  /\ consecutiveFailures' = AfterExecuteCount(consecutiveFailures)
  /\ pc' = "trade_sleep"
  /\ io' = "none" /\ lastSleep' = 0
  /\ UNCHANGED <<isRunning, circuitCooldown, tokensLeft, failRun>>
  /\ UNCHANGED <<ex, execHist, stats, envVars, pureVars>>

\* sleep(2_000) completes; next token
TradeSleepEnd ==
  /\ alive /\ pc = "trade_sleep"
  /\ lastSleep' = TRADE_SLEEP_MS
  /\ tokensLeft' = tokensLeft - 1
  /\ pc' = "for"
  /\ io' = "none"
  /\ ForgetExecute
  /\ UNCHANGED <<isRunning, consecutiveFailures, circuitCooldown, failRun>>
  /\ UNCHANGED <<ex, stats, envVars, sideVars, tradeLimit, failedInRow>>

\* if (this.consecutiveFailures >= this.MAX_FAILURES) circuitCooldown = true
Trip(n) == n >= MAX_FAILURES

Min(a, b) == IF a < b THEN a ELSE b

\* catch (err) { this.log.error(...); this.consecutiveFailures++;
\*   if (...) circuitCooldown = true; await this.sleep(5_000) }
\* A log.error that throws here rejects mainLoop() and start():
\* main().catch exits with code 1.
LoopCatch ==
  /\ alive /\ pc = "catch"
  /\ \E out \in {"ok", "throw"} :
       IF out = "throw"
         THEN /\ alive' = FALSE
              /\ exitCode' = 1
              /\ UNCHANGED <<pc, consecutiveFailures, circuitCooldown, failRun>>
         ELSE /\ consecutiveFailures' = consecutiveFailures + 1
              /\ circuitCooldown' = (circuitCooldown \/ Trip(consecutiveFailures + 1))
              /\ failRun' = Min(failRun + 1, MAX_FAILURES)
              /\ pc' = "catch_sleep"
              /\ UNCHANGED <<alive, exitCode>>
  /\ io' = "none" /\ lastSleep' = 0
  /\ UNCHANGED <<isRunning, tokensLeft>>
  /\ UNCHANGED <<ex, execHist, stats, tgEnabled, logLevel, bg, pureVars>>

\* sleep(5_000) in the catch completes
CatchSleepEnd ==
  /\ alive /\ pc = "catch_sleep"
  /\ lastSleep' = CATCH_SLEEP_MS
  /\ pc' = "while"
  /\ io' = "none"
  /\ ForgetExecute
  /\ UNCHANGED <<isRunning, consecutiveFailures, circuitCooldown, tokensLeft, failRun>>
  /\ UNCHANGED <<ex, stats, envVars, sideVars, tradeLimit, failedInRow>>

\* ------------------------------------------------------------------------
\* execute
\* ------------------------------------------------------------------------

loopIdle == <<pc, isRunning, circuitCooldown, tokensLeft, failRun>>

\* const [buyTx, sellTx] = await Promise.all([buildSwapTx(buyQuote),
\* buildSwapTx(sellQuote)]); each is a transaction or null, or throws:
\* the log.debug in the catch of buildSwapTx
ExecuteBuild ==
  /\ alive /\ ex = "build"
  /\ \E buyTx \in BOOLEAN, sellTx \in BOOLEAN, out \in DebugOutcomes :
       ex' = IF buyTx /\ sellTx THEN "simulate"
             ELSE IF out = "throw" THEN "catch" ELSE "build_failed"
  /\ steps' = Append(steps, "BUILD")
  /\ io' = "swap" /\ lastSleep' = 0
  /\ UNCHANGED <<loopIdle, consecutiveFailures, leg, opp, ret, polled>>
  /\ UNCHANGED <<chainVars, statVars, submits, outbox, verdict, envVars, pureVars>>

\* log.warn('failed to build transactions'); tracker.record(false, 0); return
ExecuteBuildFailed ==
  /\ alive /\ ex = "build_failed"
  /\ \E out \in LogOutcomes :
       IF out = "throw"
         THEN /\ ex' = "catch"
              /\ UNCHANGED <<stats, verdict, failedInRow>>
         ELSE /\ stats' = Record(stats, FALSE, 0)
              /\ verdict' = "build_failed"
              /\ failedInRow' = Min(failedInRow + 1, MAX_FAILURES)
              /\ ex' = "idle"
  /\ io' = "none" /\ lastSleep' = 0
  /\ UNCHANGED <<loopIdle, consecutiveFailures, leg, opp, ret, polled>>
  /\ UNCHANGED <<chainVars, entry, steps, submits, outbox, envVars, sideVars, tradeLimit, lastPoll>>

\* if (!simOk) { recordSimSkip(); return }
SimulationRejected(simOk) == ~simOk

\* const simOk = await this.simulate(buyTx): false on result.value.err and
\* on any exception; if (!simOk) { log.debug('simulation rejected'); ... }
ExecuteSimulate ==
  /\ alive /\ ex = "simulate"
  /\ \E simOk \in BOOLEAN, out \in DebugOutcomes :
       /\ steps' = Append(steps, IF simOk THEN "SIMULATE" ELSE "SIMULATE_REJECTED")
       /\ IF SimulationRejected(simOk)
            THEN IF out = "throw"
                   THEN /\ ex' = "catch"
                        /\ UNCHANGED <<stats, verdict>>
                   ELSE /\ stats' = RecordSimSkip(stats)
                        /\ verdict' = "sim_skipped"
                        /\ ex' = "idle"
            ELSE /\ ex' = "send"
                 /\ UNCHANGED <<stats, verdict>>
  /\ leg' = "buy"
  /\ io' = "simulate" /\ lastSleep' = 0
  /\ UNCHANGED <<loopIdle, consecutiveFailures, opp, ret, polled>>
  /\ UNCHANGED <<chainVars, entry, submits, outbox, envVars, pureVars>>

StepOf(l) == IF l = "buy" THEN "SUBMIT_BUY" ELSE "SUBMIT_SELL"

\* sendViaSender(tx) up to the relay's answer.
\*   blockhash: getLatestBlockhash throws, nothing is posted;
\*   error:     the relay answers { error }, the transaction is not taken;
\*   lost:      the POST throws (8 s timeout, transport, parse); the relay
\*              may or may not have taken the transaction;
\*   result:    the relay answers { result: signature }.
\* In the first three cases sendViaSender returns null, unless the
\* log.debug in its catch throws.
SendViaSender ==
  /\ alive /\ ex = "send"
  /\ \E out \in {"blockhash", "error", "lost", "result"}, dbg \in DebugOutcomes :
       /\ submits' = IF out = "blockhash" THEN submits
                     ELSE [submits EXCEPT ![leg] = @ + 1]
       /\ IF out = "result"
            THEN /\ chain' = [chain EXCEPT ![leg] = "pending"]
                 /\ ex' = "confirm"
                 /\ UNCHANGED ret
            ELSE /\ IF dbg = "throw"
                      THEN ex' = "catch" /\ UNCHANGED ret
                      ELSE ex' = "leg_done" /\ ret' = [ret EXCEPT ![leg] = "null"]
                 /\ IF out = "lost"
                      THEN \E taken \in BOOLEAN :
                             chain' = IF taken THEN [chain EXCEPT ![leg] = "pending"] ELSE chain
                      ELSE UNCHANGED chain
  /\ polled' = FALSE
  /\ lastPoll' = NoPoll
  /\ heightPassed' = FALSE
  /\ steps' = Append(steps, StepOf(leg))
  /\ io' = "relay" /\ lastSleep' = 0
  /\ UNCHANGED <<loopIdle, consecutiveFailures, leg, opp>>
  /\ UNCHANGED <<statVars, outbox, verdict, envVars, sideVars, tradeLimit, failedInRow>>

\* One iteration of the loop of confirmTx, from what the two RPC calls
\* show: getBlockHeight (throws, or height > lastValidBlockHeight or not)
\* and getSignatureStatuses (throws, or the status s).
ConfirmStep(heightThrows, seenPassed, statusThrows, s) ==
  IF heightThrows THEN "retry"
  ELSE IF seenPassed THEN "false"
  ELSE IF statusThrows THEN "retry"
  ELSE IF s = "failed" THEN "false"
  ELSE IF s = "landed" THEN "true"
  ELSE "retry"

\* What the iteration got to see: a call that threw (nothing after it is
\* looked at), a height past lastValidBlockHeight (the status is not
\* fetched), or the status
Observed(heightThrows, seenPassed, statusThrows, s) ==
  IF heightThrows THEN [threw |-> TRUE, passed |-> FALSE, status |-> "none"]
  ELSE IF seenPassed THEN [threw |-> FALSE, passed |-> TRUE, status |-> "none"]
  ELSE IF statusThrows THEN [threw |-> TRUE, passed |-> FALSE, status |-> "none"]
  ELSE [threw |-> FALSE, passed |-> FALSE, status |-> s]

\* What the RPC node can show of the leg: it may lag behind the chain.
SeenHeightPassed == IF heightPassed THEN BOOLEAN ELSE {FALSE}
SeenStatus(l) == {"unknown"} \cup (IF chain[l] \in {"landed", "failed"} THEN {chain[l]} ELSE {})

\* while (Date.now() - start < timeout) { try { ... } catch { } await
\* this.sleep(500) }: the log.debug before a `return false` is inside the
\* try, so when it throws the loop goes round again.
ConfirmPoll ==
  /\ alive /\ ex = "confirm"
  /\ \E ht \in BOOLEAN, hp \in SeenHeightPassed, st \in BOOLEAN, s \in SeenStatus(leg),
        dbg \in DebugOutcomes :
       LET r == ConfirmStep(ht, hp, st, s)
       IN /\ lastPoll' = Observed(ht, hp, st, s)
          /\ IF r = "retry" \/ (r = "false" /\ dbg = "throw")
               THEN /\ polled' = TRUE
                    /\ lastSleep' = CYCLE_SLEEP_MS
                    /\ UNCHANGED <<ex, ret>>
               ELSE /\ ret' = [ret EXCEPT ![leg] = IF r = "true" THEN "sig" ELSE "null"]
                    /\ ex' = "leg_done"
                    /\ lastSleep' = 0
                    /\ UNCHANGED polled
  /\ io' = "rpc"
  /\ UNCHANGED <<loopIdle, consecutiveFailures, leg, opp>>
  /\ UNCHANGED <<chainVars, statVars, histVars, envVars, sideVars, tradeLimit, failedInRow>>

\* The loop condition fails after at least one iteration: 15 s have
\* passed; log.debug('Confirmation timeout') and confirmTx returns false.
\* A log.debug that throws here is caught by sendViaSender, which returns
\* null unless the log.debug in its catch throws too.
ConfirmTimeout ==
  /\ alive /\ ex = "confirm" /\ polled
  /\ \E dbg \in DebugOutcomes :
       IF dbg = "throw"
         THEN ex' = "catch" /\ UNCHANGED ret
         ELSE ex' = "leg_done" /\ ret' = [ret EXCEPT ![leg] = "null"]
  /\ lastPoll' = TimedOut
  /\ io' = "none" /\ lastSleep' = 0
  /\ UNCHANGED <<loopIdle, consecutiveFailures, leg, opp, polled>>
  /\ UNCHANGED <<chainVars, statVars, histVars, envVars, sideVars, tradeLimit, failedInRow>>

BuyUnchecked(r) == FALSE
\* if (!buySig)
BuyFailed(r) == r = "null"

\* const buySig = await this.sendViaSender(buyTx); if (!buySig) ... else
\* log.success('BUY ...')
ExecuteAfterBuy ==
  /\ alive /\ ex = "leg_done" /\ leg = "buy"
  /\ IF BuyFailed(ret["buy"])
       THEN ex' = "buy_failed"
       ELSE \E out \in LogOutcomes :
              ex' = IF out = "throw" THEN "catch" ELSE "settle"
  /\ io' = "none" /\ lastSleep' = 0
  /\ UNCHANGED <<loopIdle, consecutiveFailures, leg, opp, ret, polled>>
  /\ UNCHANGED <<chainVars, statVars, histVars, envVars, pureVars>>

\* log.warn('BUY tx failed'); tracker.record(false, 0); return
ExecuteBuyFailed ==
  /\ alive /\ ex = "buy_failed"
  /\ \E out \in LogOutcomes :
       IF out = "throw"
         THEN /\ ex' = "catch"
              /\ UNCHANGED <<stats, verdict, failedInRow>>
         ELSE /\ stats' = Record(stats, FALSE, 0)
              /\ verdict' = "buy_failed"
              /\ failedInRow' = Min(failedInRow + 1, MAX_FAILURES)
              /\ ex' = "idle"
  /\ io' = "none" /\ lastSleep' = 0
  /\ UNCHANGED <<loopIdle, consecutiveFailures, leg, opp, ret, polled>>
  /\ UNCHANGED <<chainVars, entry, steps, submits, outbox, envVars, sideVars, tradeLimit, lastPoll>>

\* the argument of the sleep between the legs
SettleSleep == BUY_SETTLE_MS

\* await this.sleep(800) completes; the sell leg is next
ExecuteSettle ==
  /\ alive /\ ex = "settle"
  /\ lastSleep' = SettleSleep
  /\ leg' = "sell"
  /\ ex' = "send"
  /\ io' = "none"
  /\ UNCHANGED <<loopIdle, consecutiveFailures, opp, ret, polled>>
  /\ UNCHANGED <<chainVars, statVars, histVars, envVars, pureVars>>

\* const sellSig = await this.sendViaSender(sellTx); if (!sellSig) ... else
\* the two log.success lines
ExecuteAfterSell ==
  /\ alive /\ ex = "leg_done" /\ leg = "sell"
  /\ IF ret["sell"] = "null"
       THEN ex' = "stranded"
       ELSE \E out \in LogOutcomes :
              ex' = IF out = "throw" THEN "catch" ELSE "notify_profit"
  /\ io' = "none" /\ lastSleep' = 0
  /\ UNCHANGED <<loopIdle, consecutiveFailures, leg, opp, ret, polled>>
  /\ UNCHANGED <<chainVars, statVars, histVars, envVars, pureVars>>

\* log.error('SELL FAILED - token stranded!')
ExecuteStranded ==
  /\ alive /\ ex = "stranded"
  /\ \E out \in LogOutcomes :
       ex' = IF out = "throw" THEN "catch" ELSE "stranded_notify"
  /\ io' = "none" /\ lastSleep' = 0
  /\ UNCHANGED <<loopIdle, consecutiveFailures, leg, opp, ret, polled>>
  /\ UNCHANGED <<chainVars, statVars, histVars, envVars, pureVars>>

\* await this.tg.send('SELL FAILED - ACTION NEEDED ... Mint ... Buy tx ...')
ExecuteStrandedNotify ==
  /\ alive /\ ex = "stranded_notify"
  /\ outbox' = TelegramSend(outbox, StrandedMsg(opp))
  /\ \E out \in SendOutcomes :
       /\ ex' = IF SendRaises(out) THEN "catch" ELSE "stranded_record"
       /\ io' = SendIo(out)
  /\ lastSleep' = 0
  /\ UNCHANGED <<loopIdle, consecutiveFailures, leg, opp, ret, polled>>
  /\ UNCHANGED <<chainVars, statVars, steps, submits, verdict, envVars, pureVars>>

\* tracker.record(false, 0); return
ExecuteStrandedRecord ==
  /\ alive /\ ex = "stranded_record"
  /\ stats' = Record(stats, FALSE, 0)
  /\ verdict' = "stranded"
  /\ failedInRow' = Min(failedInRow + 1, MAX_FAILURES)
  /\ ex' = "idle"
  /\ io' = "none" /\ lastSleep' = 0
  /\ UNCHANGED <<loopIdle, consecutiveFailures, leg, opp, ret, polled>>
  /\ UNCHANGED <<chainVars, entry, steps, submits, outbox, envVars, sideVars, tradeLimit, lastPoll>>

\* await this.tg.send('Profitable Trade! ...');
\* tracker.record(true, opp.estimatedProfitSol)
ExecuteRecordSuccess ==
  /\ alive /\ ex = "notify_profit"
  /\ outbox' = TelegramSend(outbox, ProfitMsg(opp))
  /\ \E out \in SendOutcomes :
       /\ io' = SendIo(out)
       /\ IF SendRaises(out)
            THEN /\ ex' = "catch"
                 /\ UNCHANGED <<stats, verdict, steps, failedInRow>>
            ELSE /\ stats' = Record(stats, TRUE, opp.estimatedProfit3)
                 /\ verdict' = "success"
                 /\ failedInRow' = 0
                 /\ steps' = Append(steps, "RECORD_SUCCESS")
                 /\ ex' = "idle"
  /\ lastSleep' = 0
  /\ UNCHANGED <<loopIdle, consecutiveFailures, leg, opp, ret, polled>>
  /\ UNCHANGED <<chainVars, entry, submits, envVars, sideVars, tradeLimit, lastPoll>>

\* catch (err) { log.error('Execute error'); tracker.record(false, 0);
\*   this.consecutiveFailures++ }
\* A log.error that throws here leaves execute by the exception, which
\* mainLoop's catch takes.
ExecuteCatch ==
  /\ alive /\ ex = "catch"
  /\ \E out \in {"ok", "throw"} :
       IF out = "throw"
         THEN /\ pc' = "catch"
              /\ UNCHANGED <<stats, consecutiveFailures>>
         ELSE /\ stats' = Record(stats, FALSE, 0)
              /\ consecutiveFailures' = consecutiveFailures + 1
              /\ UNCHANGED pc
  /\ verdict' = "thrown"
  /\ ex' = "idle"
  /\ io' = "none" /\ lastSleep' = 0
  /\ UNCHANGED <<isRunning, circuitCooldown, tokensLeft, failRun, leg, opp, ret, polled>>
  /\ UNCHANGED <<chainVars, entry, steps, submits, outbox, envVars, pureVars>>

\* ------------------------------------------------------------------------
\* The chain
\* ------------------------------------------------------------------------

\* A transaction the relay took is included in a block, with success or
\* with an on-chain error.
ChainLand ==
  /\ alive
  /\ \E l \in Legs, fate \in {"landed", "failed"} :
       /\ chain[l] = "pending"
       /\ chain' = [chain EXCEPT ![l] = fate]
  /\ UNCHANGED <<loopVars, execVars, heightPassed, statVars, histVars, stepVars, envVars, pureVars>>

\* The block height passes the lastValidBlockHeight of the leg that is
\* being confirmed; a transaction still pending is dropped for good.
ChainExpire ==
  /\ alive /\ ex = "confirm" /\ ~heightPassed
  /\ heightPassed' = TRUE
  /\ chain' = [chain EXCEPT ![leg] = IF @ = "pending" THEN "dropped" ELSE @]
  /\ UNCHANGED <<loopVars, execVars, statVars, histVars, stepVars, envVars, pureVars>>

\* ------------------------------------------------------------------------
\* Periodic tasks
\* ------------------------------------------------------------------------

\* warmSenderConnection(): a GET of the relay's /ping
WarmCalls == {"ping"}

\* healthCheck(): getBalance and, on a low balance, a notification
HealthCalls == {"rpc", "telegram", "telegram_error"}

\* tracker.summary(): log lines only
SummaryCalls == {}

\* The outbound calls of a periodic task.
TaskCalls(task) ==
  IF task = "warm" THEN WarmCalls
  ELSE IF task = "health" THEN HealthCalls
  ELSE IF task = "summary" THEN SummaryCalls
  ELSE {}

\* setInterval(() => this.tracker.summary(), 60 * 60 * 1000).  A log.info
\* that throws in the timer callback is an uncaught exception: the process
\* ends with exit code 1.
SummaryTimer ==
  /\ alive /\ pc # "start" /\ bg # "summary"
  /\ bg' = "summary"
  /\ \E out \in LogOutcomes :
       IF out = "throw"
         THEN alive' = FALSE /\ exitCode' = 1
         ELSE UNCHANGED <<alive, exitCode>>
  /\ UNCHANGED <<loopVars, execVars, chainVars, statVars, histVars, stepVars, tgEnabled, logLevel, pureVars>>

\* setInterval(() => this.healthCheck(), 5 * 60 * 1000); healthCheck
\* swallows every exception
HealthTimer ==
  /\ alive /\ pc # "start" /\ bg # "health"
  /\ bg' = "health"
  /\ UNCHANGED <<loopVars, execVars, chainVars, statVars, histVars, stepVars, tgEnabled, logLevel, alive, exitCode, pureVars>>

\* setInterval(() => this.warmSenderConnection(), 30 * 1000);
\* warmSenderConnection swallows every exception
WarmTimer ==
  /\ alive /\ pc # "start" /\ bg # "warm"
  /\ bg' = "warm"
  /\ UNCHANGED <<loopVars, execVars, chainVars, statVars, histVars, stepVars, tgEnabled, logLevel, alive, exitCode, pureVars>>

\* ------------------------------------------------------------------------
\* Specifications
\* ------------------------------------------------------------------------

MainFlow ==
  \/ Start \/ LoopTop \/ CooldownWarn \/ CooldownNotify \/ CooldownEnd
  \/ Scan \/ ForFind \/ CycleEnd \/ CallExecute \/ AfterExecute
  \/ TradeSleepEnd \/ LoopCatch \/ CatchSleepEnd
  \/ ExecuteBuild \/ ExecuteBuildFailed \/ ExecuteSimulate
  \/ SendViaSender \/ ConfirmPoll \/ ConfirmTimeout
  \/ ExecuteAfterBuy \/ ExecuteBuyFailed \/ ExecuteSettle \/ ExecuteAfterSell
  \/ ExecuteStranded \/ ExecuteStrandedNotify \/ ExecuteStrandedRecord
  \/ ExecuteRecordSuccess \/ ExecuteCatch

\* The trade pipeline and the chain.
Next == MainFlow \/ ChainLand \/ ChainExpire

Spec == Init /\ [][Next]_vars

\* The same pipeline when the aggregator keeps answering with a profitable
\* round trip for MAX_FAILURES executes
InitBreaker ==
  /\ pc = "start"
  /\ BotFields
  /\ envMissing = {} /\ shutdown = NoShutdown /\ hung = FALSE
  /\ FindIdle /\ CandIdle /\ WatchIdle /\ TipIdle /\ StratIdle /\ WsIdle
  /\ tradeLimit = MAX_FAILURES

SpecBreaker == InitBreaker /\ [][Next]_vars

\* The pipeline together with the periodic tasks start() schedules.
NextTasks == Next \/ SummaryTimer \/ HealthTimer \/ WarmTimer

SpecTasks == Init /\ [][NextTasks]_vars

\* ------------------------------------------------------------------------
\* The process: main(), the constructor, the signal handlers
\* ------------------------------------------------------------------------

\* ['RPC_URL', 'PRIVATE_KEY']
RequiredEnv == {"RPC_URL", "PRIVATE_KEY"}

ConfigMissingNever(missing) == FALSE

\* if (missing.length) throw new Error(`Missing env vars: ...`)
ConfigMissing(missing) == missing # {}

\* main() is entered: the environment of the process, nothing constructed
InitProc ==
  /\ pc = "new"
  /\ BotFields
  /\ envMissing \in SUBSET RequiredEnv
  /\ shutdown = NoShutdown
  /\ hung = FALSE
  /\ FindIdle /\ CandIdle /\ WatchIdle /\ TipIdle /\ StratIdle /\ WsIdle
  /\ tradeLimit = MaxTrades

\* const bot = new MilkaArbitrageBot(): loadConfig(), then the logger, the
\* tracker, the sink, the connection, the wallet and the banner. An error
\* thrown by loadConfig, or by the rest of the constructor (a PRIVATE_KEY
\* that does not decode, a log write that fails), rejects main():
\* main().catch(err => { console.error('Fatal:', err); process.exit(1) })
Construct ==
  /\ alive /\ pc = "new"
  /\ \E restOk \in BOOLEAN :
       IF ConfigMissing(envMissing) \/ ~restOk
         THEN /\ alive' = FALSE
              /\ exitCode' = 1
              /\ pc' = pc
         ELSE /\ pc' = "start"
              /\ UNCHANGED <<alive, exitCode>>
  /\ UNCHANGED <<isRunning, consecutiveFailures, circuitCooldown, tokensLeft>>
  /\ UNCHANGED <<execVars, chainVars, statVars, histVars, stepVars>>
  /\ UNCHANGED <<tgEnabled, logLevel, bg, findVars, candVars, watchVars, tipVars, stratVars, runVars, wsVars, procVars>>

\* process.on('SIGINT' / 'SIGTERM', () => { bot.stop(); process.exit(0) }),
\* registered once the bot is constructed. stop(): log.info('Shutting
\* down...'); isRunning = false; tracker.summary(); tg.send(...) without
\* await. A log write that throws in the handler is an uncaught exception
\* (exit code 1). Telegram.send returns at once when the sink is disabled;
\* otherwise its fetch has only been started when process.exit(0) runs.
Signal ==
  /\ alive /\ pc # "new"
  /\ \E first \in LogOutcomes, rest \in LogOutcomes :
       IF first = "throw"
         THEN /\ shutdown' = [signalled |-> TRUE, summary |-> FALSE, notice |-> "none"]
              /\ exitCode' = 1
              /\ UNCHANGED isRunning
         ELSE IF rest = "throw"
           THEN /\ shutdown' = [signalled |-> TRUE, summary |-> FALSE, notice |-> "none"]
                /\ exitCode' = 1
                /\ isRunning' = FALSE
           ELSE /\ shutdown' = [signalled |-> TRUE, summary |-> TRUE,
                                notice |-> IF tgEnabled THEN "in flight" ELSE "returned"]
                /\ exitCode' = 0
                /\ isRunning' = FALSE
  /\ alive' = FALSE
  /\ UNCHANGED <<pc, consecutiveFailures, circuitCooldown, tokensLeft>>
  /\ UNCHANGED <<execVars, chainVars, statVars, histVars, stepVars>>
  /\ UNCHANGED <<tgEnabled, logLevel, bg, findVars, candVars, watchVars, tipVars, stratVars, runVars, wsVars, envMissing, hung>>

\* The process from main() on, with the stop signals.
NextProc == Construct \/ Next \/ Signal

SpecProc == InitProc /\ [][NextProc]_vars

\* ------------------------------------------------------------------------
\* Collaborators that never respond
\* ------------------------------------------------------------------------

\* The awaits of the main loop on Telegram.send: the cooldown warning, the
\* stranded-position alert, the profit message
AwaitsTelegram ==
  \/ pc = "cooldown_notify"
  \/ ex \in {"stranded_notify", "notify_profit"}

\* Telegram.send: await fetch(url, { method, headers, body }) without a
\* signal, so the promise settles only when the server answers or the
\* connection fails. The quote, swap, tip-feed, feed and relay requests
\* carry AbortSignal.timeout(...) and settle by themselves.
Hang ==
  /\ alive /\ ~hung
  /\ tgEnabled /\ AwaitsTelegram
  /\ hung' = TRUE
  /\ UNCHANGED <<botVars, findVars, candVars, watchVars, tipVars, stratVars, runVars, wsVars, envMissing, shutdown>>

\* The main loop takes its next step unless it is suspended for good
Proceed == ~hung /\ Next

NextHang == Proceed \/ Hang

\* Every step of the loop that can be taken is taken in the end: the
\* collaborators that respond do so, and the timers and timeouts fire.
SpecHang == Init /\ [][NextHang]_vars /\ WF_vars(Proceed)

\* ------------------------------------------------------------------------
\* findOpportunity on its own
\* ------------------------------------------------------------------------

\* Round-trip surpluses (sell outAmount - inAmount, in atomic units of the
\* base) around the two thresholds of the profit test, for the tips below.
FindGross(base) ==
  IF base.mint = WSOL
    THEN {0 - 1000, 300000, 610000, 859999, 860000, 2000000}
    ELSE {0 - 1000, 91500, 128999, 129000, 300000}

FindTips == {MIN_TIP_LAMPORTS, 300000}

\* What the environment can answer while one base is tried.
FindResponses(base) ==
  LET good == InAmount(base) + 2000000
  IN  { [buy |-> NotOkResp, sell |-> NotOkResp, tip |-> MIN_TIP_LAMPORTS, tipThrows |-> FALSE],
        [buy |-> NoOutResp, sell |-> NotOkResp, tip |-> MIN_TIP_LAMPORTS, tipThrows |-> FALSE],
        [buy |-> QuoteNoImpact(1000), sell |-> Quote(good, 50), tip |-> MIN_TIP_LAMPORTS, tipThrows |-> FALSE],
        [buy |-> Quote(1000, MaxPriceImpact + 1), sell |-> Quote(good, 50), tip |-> MIN_TIP_LAMPORTS, tipThrows |-> FALSE],
        [buy |-> Quote(1000, MaxPriceImpact), sell |-> Quote(good, 50), tip |-> MIN_TIP_LAMPORTS, tipThrows |-> FALSE],
        [buy |-> Quote(1000, 50), sell |-> Quote(good, MaxPriceImpact), tip |-> MIN_TIP_LAMPORTS, tipThrows |-> FALSE],
        [buy |-> Quote(1000, 50), sell |-> Quote(good, MaxPriceImpact + 1), tip |-> MIN_TIP_LAMPORTS, tipThrows |-> FALSE] }
      \cup
      { [buy |-> Quote(1000, 50), sell |-> Quote(InAmount(base) + g, 50), tip |-> t,
         tipThrows |-> FALSE] : g \in FindGross(base), t \in FindTips }
      \cup
      { [buy |-> Quote(1000, 50), sell |-> Quote(good, 50), tip |-> MIN_TIP_LAMPORTS,
         tipThrows |-> TRUE] }

FindInputs ==
  { <<a, b, c>> : a \in FindResponses(BASE_MINTS[1]),
                  b \in FindResponses(BASE_MINTS[2]),
                  c \in FindResponses(BASE_MINTS[3]) }

InitFind ==
  /\ BotInit
  /\ fToken \in Tokens
  /\ fResp \in FindInputs
  /\ (\E i \in 1..Len(BASE_MINTS) : fResp[i].tipThrows) => logLevel = "debug"
  /\ fOut = NoOpp
  /\ fPc = "call"
  /\ fCalc = [i \in 1..Len(BASE_MINTS) |-> NoCalc]
  /\ CandIdle
  /\ WatchIdle
  /\ TipIdle

\* const opp = await this.findOpportunity(token)
Find ==
  /\ fPc = "call"
  /\ fOut' = findOpportunity(fToken, fResp)
  /\ fCalc' = [i \in 1..Len(BASE_MINTS) |-> CalcBase(BASE_MINTS[i], fResp[i])]
  /\ fPc' = "done"
  /\ UNCHANGED <<botVars, procVars, fToken, fResp, candVars, watchVars, tipVars, stratVars, runVars, wsVars>>

NextFind == Find

SpecFind == InitFind /\ [][NextFind]_vars

\* ------------------------------------------------------------------------
\* getTokenCandidates on its own: the answers of the feed and the contents
\* of watchlist.json it is applied to
\* ------------------------------------------------------------------------

\* Largest number of further tokens the feed reports besides the seeds, and
\* largest number of entries of watchlist.json besides the special ones
MaxDiscovered == 41
MaxWatch == 45

SeedCounts == {0, 2, Len(SEED_TOKENS)}
DiscoveredCounts == {0, MaxDiscovered}
WatchCounts == {0, 2, MaxWatch}

\* Volumes at and above the minimum, neither sorted nor all different
FeedVolume(i) == MIN_VOLUME_H24 + ((i * 3) % 4) * 10000

SeedPairs(k) ==
  [i \in 1..k |-> Pair("solana", SEED_TOKENS[i].mint, SEED_TOKENS[i].symbol,
                       FeedVolume(i), MIN_LIQUIDITY_USD + 1000)]

DiscoveredPairs(e) ==
  [i \in 1..e |-> Pair("solana", "disc" \o ToString(i), "D" \o ToString(i),
                       FeedVolume(i + 1), MIN_LIQUIDITY_USD)]

LowVolumePair == Pair("solana", "lowVolMint", "LOWV", MIN_VOLUME_H24 - 1, 90000)
LowLiquidityPair == Pair("solana", "lowLiqMint", "LOWL", 90000, MIN_LIQUIDITY_USD - 1)
LowVolumeOtherPair == Pair("solana", "lowVolMint", "LOWV", 1000, MIN_LIQUIDITY_USD - 1)
TwoPoolsPair == Pair("solana", "twoPoolMint", "TWOP", MIN_VOLUME_H24 - 1, 90000)
TwoPoolsGoodPair == Pair("solana", "twoPoolMint", "TWOP", 60000, 90000)
ForeignPair == Pair("ethereum", "foreignMint", "FRGN", 90000, 90000)
BasePair == Pair("solana", WSOL, "SOL", 90000, 90000)
SecondPair == Pair("solana", SEED_TOKENS[1].mint, SEED_TOKENS[1].symbol, 95000, 90000)
SeedBelowPair == Pair("solana", SEED_TOKENS[3].mint, SEED_TOKENS[3].symbol, 40000, 90000)

SpecialPairs ==
  { <<>>,
    <<LowVolumePair, LowVolumeOtherPair>>,
    <<LowLiquidityPair>>,
    <<TwoPoolsPair, TwoPoolsGoodPair>>,
    <<SeedBelowPair>>,
    <<ForeignPair, BasePair, SecondPair, LowVolumePair, LowLiquidityPair>> }

Feeds ==
  {[status |-> "throws", pairs |-> <<>>], [status |-> "notOk", pairs |-> <<>>]}
  \cup {[status |-> "ok", pairs |-> SeedPairs(k) \o sp \o DiscoveredPairs(e)] :
          k \in SeedCounts, sp \in SpecialPairs, e \in DiscoveredCounts}

WatchEntry(mint, symbol) == [mint |-> mint, symbol |-> symbol]

\* The watcher puts new entries in front: the newest first
WatchEntries(n) ==
  [i \in 1..n |-> WatchEntry("watch" \o ToString(i), "W" \o ToString(i))]

SpecialEntries ==
  { <<>>,
    <<WatchEntry("", "NOMINT")>>,
    <<WatchEntry(USDC, "USDC")>>,
    <<WatchEntry("lowVolMint", "LOWV"), WatchEntry("lowLiqMint", "LOWL")>>,
    <<WatchEntry(SEED_TOKENS[1].mint, SEED_TOKENS[1].symbol)>>,
    <<WatchEntry("lowLiqMint", "LOWL"), WatchEntry("", "NOMINT"),
      WatchEntry(WSOL, "SOL"), WatchEntry(SEED_TOKENS[2].mint, SEED_TOKENS[2].symbol),
      WatchEntry("lowLiqMint", "LOWL")>> }

Watchlists ==
  {[file |-> "absent", raw |-> <<>>], [file |-> "unreadable", raw |-> <<>>]}
  \cup {[file |-> "list", raw |-> WatchEntries(n) \o se] :
          n \in WatchCounts, se \in SpecialEntries}

InitCand ==
  /\ BotInit
  /\ FindIdle
  /\ WatchIdle
  /\ TipIdle
  /\ cFeed \in Feeds
  /\ cWatch \in Watchlists
  /\ cLogFails \in BOOLEAN
  /\ cLogFails => logLevel = "debug"
  /\ cOut = CandThrew
  /\ cPc = "call"

\* const tokens = await this.getTokenCandidates()
GetTokenCandidates ==
  /\ cPc = "call"
  /\ cOut' = getTokenCandidates(cFeed, cWatch, cLogFails)
  /\ cPc' = "done"
  /\ UNCHANGED <<botVars, procVars, findVars, watchVars, tipVars, stratVars, runVars, wsVars, cFeed, cWatch, cLogFails>>

NextCand == GetTokenCandidates

SpecCand == InitCand /\ [][NextCand]_vars

\* ------------------------------------------------------------------------
\* The watcher: calls of addToWatchlist by its discovery sources, and
\* restarts of the process
\* ------------------------------------------------------------------------

\* The number of different new mints the sources offer
MaxOffered == 52

Mint(n) == "mint" \o ToString(n)

\* An entry written into watchlist.json by hand (the file is documented as
\* hand-editable and hot-reloaded), which the watcher has not seen
HandListed == Mint(0)

\* The mints the sources report again and again, of those reported so far
Reoffered(n) == {Mint(k) : k \in {0, 1, 2} \cap 0..n}

Ages == {Age(0), Age(MAX_AGE_MS), Age(MAX_AGE_MS + 1), NaNAge}

AllMints == {Mint(n) : n \in 0..(MaxOffered + 1)}

InitWatch ==
  /\ BotInit
  /\ FindIdle
  /\ CandIdle
  /\ TipIdle
  /\ wList \in {<<>>, <<[mint |-> HandListed]>>}
  /\ wSeenFile = {}
  /\ wSeen = {}
  /\ wOffered = 0
  /\ wMint = ""
  /\ wRet = FALSE
  /\ wPrev = wList
  /\ wKnown = FALSE
  /\ wProcessed = {}
  /\ wSince = [m \in AllMints |-> 0]
  /\ wAdds = 0
  /\ wRuns = NoRuns
  /\ wMsgs = 0
  /\ wAdded = {}

\* One call addToWatchlist(seen, mint, ...) by the websocket handler or one
\* of the polls
Call(mint, age) ==
  LET r == addToWatchlist(wList, wSeen, wSeenFile, mint, age)
  IN /\ wMint' = mint
     /\ wRet' = r.ret
     /\ wPrev' = wList
     /\ wKnown' = (mint \in wProcessed)
     /\ wList' = r.list
     /\ wSeen' = r.seen
     /\ wSeenFile' = r.seenFile
     /\ wProcessed' = IF r.ret \/ r.seen # wSeen THEN wProcessed \cup {mint}
                      ELSE wProcessed
     /\ wAdds' = IF r.ret THEN wAdds + 1 ELSE wAdds
     /\ wSince' = IF r.ret THEN [wSince EXCEPT ![mint] = wAdds + 1] ELSE wSince

\* A source reports a mint it has not reported before
OfferNew ==
  /\ wOffered < MaxOffered
  /\ \E age \in Ages :
       /\ Call(Mint(wOffered + 1), age)
       /\ wOffered' = IF wRet' THEN wOffered + 1 ELSE wOffered
  /\ UNCHANGED <<botVars, procVars, findVars, candVars, tipVars, stratVars, runVars, wsVars,
                 wRuns, wMsgs, wAdded>>

\* A source reports a mint again
OfferAgain ==
  /\ \E mint \in Reoffered(wOffered), age \in Ages : Call(mint, age)
  /\ UNCHANGED <<botVars, procVars, findVars, candVars, tipVars, stratVars, runVars, wsVars, wOffered,
                 wRuns, wMsgs, wAdded>>

\* The process ends and main() runs again: const seen = loadSeen()
Restart ==
  /\ wSeen' = wSeenFile
  /\ wRet' = FALSE
  /\ wMint' = ""
  /\ wPrev' = wList
  /\ wKnown' = FALSE
  /\ UNCHANGED <<botVars, procVars, findVars, candVars, tipVars, stratVars, runVars, wsVars, wList, wSeenFile, wOffered,
                 wRuns, wMsgs, wAdded,
                 wProcessed, wSince, wAdds>>

NextWatch == OfferNew \/ OfferAgain \/ Restart

SpecWatch == InitWatch /\ [][NextWatch]_vars

\* ------------------------------------------------------------------------
\* The tip on its own: calls of getDynamicTipLamports by findOpportunity
\* and of buildSwapTx by execute, while time passes
\* ------------------------------------------------------------------------

\* Time passes in steps of TickMs, MaxTicks times
TickMs == 150000
MaxTicks == 4

\* What the tip-floor feed answers: the 75th percentile in tenths of a
\* lamport (negative, just under, at and just over the minimum,
\* above it), or something that is not a number
TipFeeds ==
  {[status |-> "throws", isNumber |-> FALSE, tenths |-> 0],
   [status |-> "notOk", isNumber |-> FALSE, tenths |-> 0],
   [status |-> "ok", isNumber |-> FALSE, tenths |-> 0]}
  \cup {[status |-> "ok", isNumber |-> TRUE, tenths |-> t] :
          t \in {-15, (MIN_TIP_LAMPORTS * 10) - 1, MIN_TIP_LAMPORTS * 10,
                 (MIN_TIP_LAMPORTS * 10) + 1, 3000000, 1000000000}}

\* What the swap endpoint answers; a transaction of the endpoint may hold a
\* transfer of its own (wrapAndUnwrapSol)
SwapAnswers ==
  {[status |-> st, instructions |-> <<>>] : st \in {"notOk", "noTx", "bad"}}
  \cup {[status |-> "ok", instructions |-> <<Instruction("jupiter.route", "", 0)>>],
        [status |-> "ok",
         instructions |-> <<Instruction("system.transfer", "wsolAccount", 50000000),
                            Instruction("jupiter.route", "", 0)>>]}

InitTip ==
  /\ BotInit
  /\ FindIdle
  /\ CandIdle
  /\ WatchIdle
  /\ cachedTipLamports = MIN_TIP_LAMPORTS
  /\ tipCacheTime = 0
  /\ now = TIP_CACHE_MS
  /\ builtTx = NoTx
  /\ feeTip = 0
  /\ builds = NoBuilds

\* A debug-level write of the log can fail only when LOG_LEVEL is debug
TipLogOutcomes == IF logLevel = "debug" THEN BOOLEAN ELSE {FALSE}

Tick ==
  /\ now < TIP_CACHE_MS + (MaxTicks * TickMs)
  /\ now' = now + TickMs
  /\ UNCHANGED <<botVars, procVars, findVars, candVars, watchVars, stratVars, runVars, wsVars, cachedTipLamports,
                 tipCacheTime, builtTx, feeTip, builds>>

\* const tipSol = (await this.getDynamicTipLamports()) / 1e9
FindTip ==
  /\ \E feed \in TipFeeds, logFails \in TipLogOutcomes :
       LET t == getDynamicTipLamports(cachedTipLamports, tipCacheTime, now, feed, logFails)
       IN /\ cachedTipLamports' = t.cached
          /\ tipCacheTime' = t.cacheTime
          /\ feeTip' = IF t.threw THEN feeTip ELSE t.tip
  /\ UNCHANGED <<botVars, procVars, findVars, candVars, watchVars, stratVars, runVars, wsVars, now, builtTx, builds>>

\* const buyTx = await this.buildSwapTx(opp.buyQuote), and the same for
\* the sell leg
BuildSwapTx ==
  /\ \E swap \in SwapAnswers :
       IF swap.status # "ok"
         THEN /\ builtTx' = NoTx
              /\ UNCHANGED <<cachedTipLamports, tipCacheTime>>
         ELSE \E feed \in TipFeeds, logFails \in TipLogOutcomes,
                 pick \in 0..(Len(HELIUS_TIP_ACCOUNTS) - 1) :
                LET t == getDynamicTipLamports(cachedTipLamports, tipCacheTime,
                                               now, feed, logFails)
                IN /\ cachedTipLamports' = t.cached
                   /\ tipCacheTime' = t.cacheTime
                   /\ builtTx' = buildSwapTx(swap, t, pick)
  /\ UNCHANGED <<botVars, procVars, findVars, candVars, watchVars, stratVars, runVars, wsVars, now, feeTip, builds>>

NextTip == Tick \/ FindTip \/ BuildSwapTx

SpecTip == InitTip /\ [][NextTip]_vars

\* ------------------------------------------------------------------------
\* The pump.fun WebSocket of the watcher: opens, closes and reconnect
\* timers
\* ------------------------------------------------------------------------

\* Calls of connect() in a behaviour
MaxConnects == 9

\* startPumpFunWatcher(seen) has run: reconnectDelay is 2 s and connect()
\* has created the first socket
InitWs ==
  /\ pc = "start"
  /\ BotFields
  /\ envMissing = {} /\ shutdown = NoShutdown /\ hung = FALSE
  /\ FindIdle /\ CandIdle /\ WatchIdle /\ TipIdle /\ StratIdle
  /\ tradeLimit = MaxTrades
  /\ wsState = "Connecting"
  /\ reconnectDelay = RECONNECT_MIN_MS
  /\ wsSockets = 1
  /\ wsTimers = 0
  /\ wsScheduled = 0
  /\ wsCloses = 0
  /\ wsConnects = 1

WsFrame == UNCHANGED <<botVars, runVars, findVars, candVars, watchVars, tipVars, procVars, stratVars>>

\* ws.on('open'): reconnectDelay = 2_000; ws.send(subscribeNewToken)
WsOpen ==
  /\ wsState = "Connecting" /\ wsSockets > 0
  /\ wsState' = "Subscribed"
  /\ reconnectDelay' = RECONNECT_MIN_MS
  /\ wsCloses' = 0
  /\ UNCHANGED <<wsSockets, wsTimers, wsScheduled, wsConnects>>
  /\ WsFrame

\* ws.on('close'), of a socket that was open or that failed to connect
\* (ws.on('error') only logs): setTimeout(connect, reconnectDelay);
\* reconnectDelay = Math.min(reconnectDelay * 2, 60_000)
WsClose ==
  /\ wsState \in {"Connecting", "Subscribed"} /\ wsSockets > 0
  /\ wsState' = "Disconnected"
  /\ wsSockets' = wsSockets - 1
  /\ wsTimers' = wsTimers + 1
  /\ wsScheduled' = reconnectDelay
  /\ reconnectDelay' = NextDelay(reconnectDelay)
  /\ wsCloses' = wsCloses + 1
  /\ UNCHANGED wsConnects
  /\ WsFrame

\* The reconnect timer fires: connect() creates a new socket
WsReconnect ==
  /\ wsTimers > 0 /\ wsConnects < MaxConnects
  /\ wsTimers' = wsTimers - 1
  /\ wsSockets' = wsSockets + 1
  /\ wsState' = "Connecting"
  /\ wsConnects' = wsConnects + 1
  /\ UNCHANGED <<reconnectDelay, wsScheduled, wsCloses>>
  /\ WsFrame

NextWs == WsOpen \/ WsClose \/ WsReconnect

SpecWs == InitWs /\ [][NextWs]_vars

\* ------------------------------------------------------------------------
\* ArbitrageStrategy.identifyOpportunities over small market data
\* ------------------------------------------------------------------------

MaxEntries == 2
Exchanges == {"ExchangeA", "ExchangeB", "ExchangeC"}
Prices == {95, 100, 105}

MarketEntries == [price : Prices, exchange : Exchanges]

MarketData ==
  UNION {[1..n -> MarketEntries] : n \in 0..MaxEntries}

InitStrat ==
  /\ pc = "start"
  /\ BotFields
  /\ envMissing = {} /\ shutdown = NoShutdown /\ hung = FALSE
  /\ FindIdle /\ CandIdle /\ WatchIdle /\ TipIdle /\ WsIdle
  /\ tradeLimit = MaxTrades
  /\ marketData \in MarketData
  /\ opportunities = Undefined
  /\ sPc = "call"

\* const opportunities = strategy.identifyOpportunities(marketData)
IdentifyOpportunities ==
  /\ sPc = "call"
  /\ opportunities' = identifyOpportunities(marketData)
  /\ sPc' = "done"
  /\ UNCHANGED <<botVars, procVars, findVars, candVars, watchVars, tipVars, runVars, wsVars, marketData>>

NextStrat == IdentifyOpportunities

SpecStrat == InitStrat /\ [][NextStrat]_vars

\* ------------------------------------------------------------------------
\* Properties
\* ------------------------------------------------------------------------

\* C1: when the buy leg returned a signature and the sell leg returned none,
\* then by the time execute returns exactly one urgent notification holding
\* the token mint and the buy signature has been emitted, the outcome is
\* recorded as a failed trade (totalTrades and failedTrades each +1), and
\* the sell transaction was submitted once only.
C1_StrandedNotifiedOnce ==
  (ex = "idle" /\ ret["buy"] = "sig" /\ ret["sell"] = "null") =>
    /\ Len(outbox) = 1
    /\ outbox[1] = [kind |-> "stranded", mint |-> opp.tokenMint, buySig |-> Sig("buy")]
    /\ stats.totalTrades = entry.totalTrades + 1
    /\ stats.failedTrades = entry.failedTrades + 1
    /\ submits["sell"] <= 1

\* C2: the buy transaction is submitted only after simulate returned true
\* in the same execute; after a rejected simulation nothing is submitted,
\* and when execute has returned simulationSkipped is one more than when it
\* began and totalTrades, successfulTrades and failedTrades are what they
\* were.
C2_SimulationMandatory ==
  /\ (submits["buy"] > 0 \/ chain["buy"] # "unsent") =>
       (Len(steps) >= 2 /\ steps[2] = "SIMULATE")
  /\ (Len(steps) >= 2 /\ steps[2] = "SIMULATE_REJECTED") =>
       \A l \in Legs : submits[l] = 0 /\ chain[l] = "unsent"
  /\ (Len(steps) >= 2 /\ steps[2] = "SIMULATE_REJECTED" /\ ex = "idle") =>
       /\ stats.simulationSkipped = entry.simulationSkipped + 1
       /\ stats.totalTrades = entry.totalTrades
       /\ stats.successfulTrades = entry.successfulTrades
       /\ stats.failedTrades = entry.failedTrades

\* C3: when execute treats the buy leg as failed, records a failed trade
\* and skips the sell leg, the buy transaction is not confirmed on-chain,
\* then or later.
C3_FailedBuyMovesNoFunds ==
  verdict = "buy_failed" => chain["buy"] # "landed"

PipelineOrder == <<"BUILD", "SIMULATE", "SUBMIT_BUY", "SUBMIT_SELL", "RECORD_SUCCESS">>

\* C4: the steps of an execute occur in the order BUILD, SIMULATE,
\* SUBMIT_BUY, SUBMIT_SELL, RECORD_SUCCESS; the sell transaction is
\* submitted only after the buy transaction was confirmed and the 800 ms
\* sleep completed; success is recorded only if both transactions were
\* confirmed.
C4_TwoLegOrdering ==
  /\ Len(steps) <= Len(PipelineOrder)
  /\ \A k \in 1..Len(steps) :
       \/ steps[k] = PipelineOrder[k]
       \/ (k = 2 /\ Len(steps) = 2 /\ steps[k] = "SIMULATE_REJECTED")
  /\ (ex = "send" /\ leg = "sell") =>
       (ret["buy"] = "sig" /\ chain["buy"] = "landed" /\ lastSleep = BUY_SETTLE_MS)
  /\ (submits["sell"] > 0 \/ chain["sell"] # "unsent") =>
       (ret["buy"] = "sig" /\ chain["buy"] = "landed" /\ submits["buy"] = 1)
  /\ (verdict = "success" \/ stats.successfulTrades > entry.successfulTrades) =>
       /\ steps = PipelineOrder
       /\ \A l \in Legs : chain[l] = "landed" /\ ret[l] = "sig"

C4_BothLegsDone ==
  /\ verdict = "success"
  /\ steps = PipelineOrder
  /\ stats.successfulTrades = 1

\* C5: the main loop starts no evaluation and no execute while an execute
\* has not returned, and no periodic task builds, simulates or submits a
\* transaction.
C5_OnePipeline ==
  /\ ex # "idle" => pc = "await_execute"
  /\ pc \in {"scan", "for", "log_opp"} => ex = "idle"
  /\ io \in {"candidates", "quote"} => ex = "idle"
  /\ TaskCalls(bg) \cap {"swap", "simulate", "relay"} = {}

C5_TaskDuringPipeline ==
  /\ ex = "confirm"
  /\ leg = "sell"
  /\ bg = "warm"

\* C6: the main loop enters cooldown only at the start of an iteration that
\* follows MAX_FAILURES consecutive failed cycles, never after fewer.
C6_TripPoint ==
  pc = "cooldown_warn" => (circuitCooldown /\ failRun >= MAX_FAILURES)

\* C7: while the breaker is open the main loop fetches no candidates,
\* requests no quotes and submits nothing; the breaker closes only when the
\* 60 s sleep has completed, and consecutiveFailures is 0 then.
C7_Cooldown ==
  /\ [](circuitCooldown =>
          (io \notin {"candidates", "quote", "swap", "simulate", "relay"} /\ ex = "idle"))
  /\ [][(circuitCooldown /\ ~circuitCooldown') =>
          (lastSleep' = COOLDOWN_MS /\ consecutiveFailures' = 0)]_vars

C7_CooldownCompleted ==
  /\ pc = "scan"
  /\ lastSleep = COOLDOWN_MS
  /\ ~circuitCooldown
  /\ consecutiveFailures = 0

\* C8: consecutiveFailures goes back to zero only when a trade succeeded or
\* a cooldown completes; an execute that ended in a failed trade or in a
\* simulation skip does not reset it.
C8_ResetOnlyOnSuccessOrCooldown ==
  [][(consecutiveFailures > 0 /\ consecutiveFailures' = 0) =>
       (verdict = "success" \/ (circuitCooldown /\ ~circuitCooldown'))]_vars

\* C9: every opportunity findOpportunity returns comes from one of the
\* bases, and its estimatedProfitSol is the round-trip surplus normalised
\* to SOL minus (2 x tip + 2 x 0.000005 SOL + 2 x 0.0001 SOL), is positive,
\* and its profitPercent is 100 x estimatedProfitSol / tradeAmountSol and at
\* least minProfitPercent.
C9_FeeAdjustedProfit ==
  (fPc = "done" /\ fOut.found) =>
    \E i \in 1..Len(BASE_MINTS) :
      LET base == BASE_MINTS[i]
          r == fResp[i]
          surplus == r.sell.outAmount - InAmount(base)
          gross3 == IF base.mint = WSOL THEN 3 * surplus ELSE 20 * surplus
          fees3 == 3 * (2 * r.tip + 2 * 5000 + 2 * 100000)
      IN /\ ~r.tipThrows
         /\ fOut.buyQuote = r.buy
         /\ fOut.sellQuote = r.sell
         /\ fOut.tokenSymbol = <<base.symbol, fToken.symbol, base.symbol>>
         /\ fOut.tokenMint = fToken.mint
         /\ fOut.estimatedProfit3 = gross3 - fees3
         /\ fOut.estimatedProfit3 > 0
         /\ fOut.profitPercent.num = fOut.estimatedProfit3
         /\ fOut.profitPercent.den = 30 * TradeAmountMicroSol
         /\ fOut.profitPercent.num * 10 >= MinProfitTenths * fOut.profitPercent.den

C9_AtMinimumProfit ==
  /\ fPc = "done"
  /\ fOut.found
  /\ fOut.tokenSymbol[1] = "USDC"
  /\ fOut.profitPercent.num * 10 = MinProfitTenths * fOut.profitPercent.den

\* C10 as stated: a buy or sell quote whose priceImpactPct equals
\* maxPriceImpact is rejected, so no opportunity is returned on such quotes.
C10_EqualImpactRejected ==
  (fPc = "done" /\ fOut.found) =>
    /\ ParseImpact(fOut.buyQuote) # MaxPriceImpact
    /\ ParseImpact(fOut.sellQuote) # MaxPriceImpact

\* C10: a quote is rejected exactly when its priceImpactPct is greater than
\* maxPriceImpact or missing; a quote whose priceImpactPct equals
\* maxPriceImpact passes, so a base with such a quote and an acceptable
\* profit yields an opportunity.
C10_OnlyGreaterImpactRejected ==
  fPc = "done" =>
    /\ fOut.found =>
         /\ fOut.buyQuote.hasImpact /\ fOut.buyQuote.impact <= MaxPriceImpact
         /\ fOut.sellQuote.hasImpact /\ fOut.sellQuote.impact <= MaxPriceImpact
    /\ \A i \in 1..Len(BASE_MINTS) :
         LET r == fResp[i]
             net3 == NetProfit3(BASE_MINTS[i], r.sell.outAmount, r.tip)
         IN ( /\ r.buy.ok /\ r.buy.hasOut /\ r.buy.hasImpact
              /\ r.sell.ok /\ r.sell.hasOut /\ r.sell.hasImpact
              /\ r.buy.impact <= MaxPriceImpact /\ r.sell.impact <= MaxPriceImpact
              /\ (r.buy.impact = MaxPriceImpact \/ r.sell.impact = MaxPriceImpact)
              /\ ~r.tipThrows
              /\ Accepted(net3) )
            => (fOut.found /\ fOut.estimatedProfit3 >= net3)

C10_EqualImpactAccepted ==
  /\ fPc = "done"
  /\ fOut.found
  /\ fOut.buyQuote.impact = MaxPriceImpact

\* C11: findOpportunity returns none exactly when no base yields an
\* acceptable round trip; otherwise it returns the acceptable round trip of
\* the highest net profit over the three bases, and among equals the one of
\* the base tried first.
C11_BestRoute ==
  fPc = "done" =>
    LET cand(i) == EvalBase(fToken, BASE_MINTS[i], fResp[i])
        ok == {i \in 1..Len(BASE_MINTS) : cand(i).found}
    IN /\ fOut.found <=> ok # {}
       /\ ok # {} =>
            \E i \in ok :
              /\ fOut = cand(i)
              /\ fOut.tokenSymbol[1] = BASE_MINTS[i].symbol
              /\ \A j \in ok :
                   /\ cand(j).estimatedProfit3 <= cand(i).estimatedProfit3
                   /\ j < i => cand(j).estimatedProfit3 < cand(i).estimatedProfit3

C11_TieAndLowerFirst ==
  /\ fPc = "done"
  /\ fOut.found
  /\ fOut.tokenSymbol[1] = "USDC"
  /\ EvalBase(fToken, BASE_MINTS[1], fResp[1]).found
  /\ EvalBase(fToken, BASE_MINTS[1], fResp[1]).estimatedProfit3 < fOut.estimatedProfit3
  /\ EvalBase(fToken, BASE_MINTS[3], fResp[3]).found
  /\ EvalBase(fToken, BASE_MINTS[3], fResp[3]).estimatedProfit3 = fOut.estimatedProfit3

\* The worked scenario: 0.05 SOL through WSOL, the buy quote returns 1000
\* units, the sell quote returns 50 300 000 lamports, the tip is 200 000
\* lamports per leg.
WorkedScenario ==
  /\ fPc = "done"
  /\ fResp[1].buy = Quote(1000, 50)
  /\ fResp[1].sell = Quote(50300000, 50)
  /\ fResp[1].tip = 200000
  /\ ~fResp[1].tipThrows

\* C12 as stated: in the worked scenario findOpportunity computes gross
\* profit 0.0003 SOL, total fees 0.0006 SOL, net profit -0.0003 SOL, and
\* rejects the opportunity.
C12_WorkedScenarioAsStated ==
  WorkedScenario =>
    /\ fCalc[1].reached
    /\ fCalc[1].grossProfit3 = 3 * 300000
    /\ fCalc[1].totalFees = 600000
    /\ fCalc[1].netProfit3 = 0 - (3 * 300000)
    /\ fOut.found => fOut.tokenSymbol[1] # "WSOL"

\* C12: in the worked scenario findOpportunity computes gross profit
\* 0.0003 SOL, total fees 0.00061 SOL, net profit -0.00031 SOL, and
\* rejects the opportunity.
C12_WorkedScenario ==
  WorkedScenario =>
    /\ fCalc[1].reached
    /\ fCalc[1].grossProfit3 = 3 * 300000
    /\ fCalc[1].totalFees = 610000
    /\ fCalc[1].netProfit3 = 0 - (3 * 310000)
    /\ fOut.found => fOut.tokenSymbol[1] # "WSOL"

C12_ScenarioRejected ==
  /\ WorkedScenario
  /\ fCalc[1].reached
  /\ ~fOut.found

DiscoveredMints ==
  IF cFeed.status = "ok"
    THEN {c.mint : c \in {ScanPairs(cFeed.pairs, NoCandidates).candidates[i] :
                            i \in 1..Len(ScanPairs(cFeed.pairs, NoCandidates).candidates)}}
    ELSE {}

\* The entries of watchlist.json that have a mint and are not a base currency
ListedMints ==
  IF cWatch.file = "list"
    THEN {cWatch.raw[i].mint : i \in 1..Len(cWatch.raw)} \ ({""} \cup baseMints)
    ELSE {}

\* C14: every entry of watchlist.json that has a mint and is not a base
\* currency is in the list getTokenCandidates returns in that cycle, for
\* every number of seed and discovered candidates and every length of the
\* watchlist, and stands after all candidates the feed contributed.
C14_WatchlistAlwaysIncluded ==
  (cPc = "done" /\ ~cOut.threw) =>
    \A m \in ListedMints :
      \E p \in 1..Len(cOut.list) :
        /\ cOut.list[p].mint = m
        /\ m \notin DiscoveredMints =>
             \A q \in 1..Len(cOut.list) :
               cOut.list[q].mint \in DiscoveredMints => q < p

\* The mints of the list getTokenCandidates returned
ReturnedMints == {cOut.list[i].mint : i \in 1..Len(cOut.list)}

\* C15: every token of the static seed list is in the candidate list of
\* every cycle, also when the feed fails, times out, or reports the token
\* below the volume or liquidity minimum.
C15_SeedsAlwaysListed ==
  (cPc = "done" /\ ~cOut.threw) =>
    \A i \in 1..Len(SEED_TOKENS) : SEED_TOKENS[i].mint \in ReturnedMints

\* The mints the feed reports, and those it reports below the volume or the
\* liquidity minimum on every one of their pairs
ReportedMints ==
  IF cFeed.status = "ok"
    THEN {cFeed.pairs[i].address : i \in 1..Len(cFeed.pairs)}
    ELSE {}

ReportedBelowMinimum ==
  {m \in ReportedMints :
     \A i \in 1..Len(cFeed.pairs) :
       cFeed.pairs[i].address = m =>
         \/ cFeed.pairs[i].h24 < MIN_VOLUME_H24
         \/ cFeed.pairs[i].usd < MIN_LIQUIDITY_USD}

\* C16: a token the feed reports below 50,000 of 24h volume or below 20,000
\* of liquidity on every pair is not in the list getTokenCandidates
\* returns, unless its mint is in watchlist.json, and then it is in the
\* list.
C16_FilterWithWatchlistBypass ==
  (cPc = "done" /\ ~cOut.threw) =>
    \A m \in ReportedBelowMinimum :
      IF m \in ListedMints THEN m \in ReturnedMints ELSE m \notin ReturnedMints

C18_IdempotentPerMint ==
  (wMint # "" /\ wKnown) => (~wRet /\ wList = wPrev)

\* The transfers of a built transaction that pay a tip account
TipTransfers ==
  {i \in 1..Len(builtTx.instructions) :
     /\ builtTx.instructions[i].program = "system.transfer"
     /\ \E a \in 1..Len(HELIUS_TIP_ACCOUNTS) :
          builtTx.instructions[i].toPubkey = HELIUS_TIP_ACCOUNTS[a]}

C20_BuildFailureSkipped ==
  verdict = "build_failed" =>
    /\ steps = <<"BUILD">>
    /\ \A l \in Legs : submits[l] = 0 /\ chain[l] = "unsent"
    /\ stats.failedTrades = entry.failedTrades
    /\ stats.totalLoss3 = entry.totalLoss3

\* C21: a stop signal takes effect only between cycle steps: once execute
\* has submitted the buy leg, the process does not exit before that execute
\* has returned (having submitted the sell leg and recorded the outcome, or
\* notified the stranded position and recorded the failed trade).
C21_NoExitMidSubmission ==
  (shutdown.signalled /\ submits["buy"] > 0) => (ex = "idle" /\ verdict # "none")

\* C22: on a stop signal, before the process exits the summary has been
\* written and the shutdown notification has been handed to the sink and
\* its send has finished.
C22_FinalFlush ==
  (shutdown.signalled /\ ~alive /\ exitCode = 0) =>
    (shutdown.summary /\ shutdown.notice = "returned")

\* C25: if RPC_URL or PRIVATE_KEY is absent at startup, loadConfig throws,
\* the process exits with a non-zero code and the main loop is never
\* entered: no candidate fetch, quote, notification or transaction.
C25_MissingConfigFatal ==
  envMissing # {} =>
    /\ pc = "new"
    /\ ~isRunning
    /\ io = "none" /\ steps = <<>> /\ outbox = <<>>
    /\ \A l \in Legs : submits[l] = 0
    /\ ~alive => exitCode = 1

\* The process has exited with a setting missing
C25_ExitedOnMissingConfig ==
  /\ envMissing = {"PRIVATE_KEY"}
  /\ ~alive
  /\ exitCode = 1
  /\ pc = "new"

\* C23: every outbound call the main loop awaits carries a bounded
\* timeout, so when a collaborator never responds every started execute
\* still returns in the end, and every started cycle finishes.
C23_BoundedCallsProgress ==
  /\ (alive /\ ex # "idle") ~> (ex = "idle" \/ ~alive)
  /\ (alive /\ pc # "while") ~> (pc = "while" \/ ~alive)

\* The step just taken awaited a notification send that did not deliver:
\* the request failed in transport, or the sink is disabled
SendFailed == io = "telegram_error" \/ (io = "telegram" /\ ~tgEnabled)

\* C24: a notification send that fails (transport error or disabled sink)
\* never propagates into the pipeline: the step that awaited it goes on to
\* the statement after the send, as it does when the send succeeds; the
\* stranded alert is followed by the failed-trade record, the profit
\* message by the success record, the cooldown warning by the cooldown
\* sleep, and the failure counter is untouched.
C24_NotificationContained ==
  [][SendFailed' =>
       /\ alive' /\ pc' # "catch" /\ ex' # "catch"
       /\ consecutiveFailures' = consecutiveFailures
       /\ (ex = "stranded_notify") =>
            (ex' = "stranded_record" /\ stats' = stats /\ pc' = pc)
       /\ (ex = "notify_profit") =>
            /\ ex' = "idle" /\ verdict' = "success" /\ pc' = pc
            /\ stats' = Record(stats, TRUE, opp.estimatedProfit3)
       /\ (pc = "cooldown_notify") => (pc' = "cooldown_sleep" /\ stats' = stats)]_vars

C24_FailedSendThenRecorded ==
  /\ io = "telegram_error" /\ ex = "idle" /\ verdict = "success"
  /\ stats.successfulTrades = entry.successfulTrades + 1

\* C26: a failed market-data fetch (timeout, non-OK response, parse error)
\* never makes getTokenCandidates fail; the watchlist is still processed
\* and its entries returned in the same cycle; an unreadable watchlist file
\* does not discard the candidates already collected from the feed (each
\* as far as the cap of 60 leaves room).
C26_DiscoveryFailureNonFatal ==
  cPc = "done" =>
    /\ (cFeed.status # "ok") =>
         (~cOut.threw /\ (Cardinality(ListedMints) <= CANDIDATE_CAP => ListedMints \subseteq ReturnedMints))
    /\ (cWatch.file = "unreadable") =>
         (~cOut.threw /\ (Cardinality(DiscoveredMints) <= CANDIDATE_CAP => DiscoveredMints \subseteq ReturnedMints))

\* C27: identifyOpportunities returns, for each pair of entries with a
\* price gap, one opportunity that buys at the lower-priced exchange (from)
\* and sells at the higher-priced one (to) with profit equal to the price
\* difference; for 100 at ExchangeA and 95 at ExchangeB the result is
\* exactly [{profit: 5, from: ExchangeB, to: ExchangeA}].
C27_IdentifiesPriceGaps ==
  sPc = "done" =>
    /\ opportunities.defined
    /\ {opportunities.list[k] : k \in 1..Len(opportunities.list)}
         = {[profit |-> marketData[i].price - marketData[j].price,
             from |-> marketData[j].exchange, to |-> marketData[i].exchange] :
              <<i, j>> \in {p \in (1..Len(marketData)) \X (1..Len(marketData)) :
                              marketData[p[1]].price > marketData[p[2]].price}}
    /\ (marketData = <<[price |-> 100, exchange |-> "ExchangeA"],
                       [price |-> 95, exchange |-> "ExchangeB"]>>)
         => opportunities.list = <<[profit |-> 5, from |-> "ExchangeB", to |-> "ExchangeA"]>>

\* C28: when MAX_FAILURES executes in a row have ended in a failed trade
\* outcome (build failure, buy failure or stranded sell) with no successful
\* trade between them, the main loop enters the cooldown before it
\* evaluates a further candidate cycle.
C28_FailedTradesTripBreaker ==
  pc = "scan" => failedInRow < MAX_FAILURES

\* Quoting this base ends in an error: a transport error, a timeout, a
\* non-OK response or a body that does not parse (ok is FALSE), or a quote
\* without outAmount
QuoteFails(r) ==
  \/ ~r.buy.ok \/ ~r.buy.hasOut
  \/ ~ImpactRejected(r.buy) /\ (~r.sell.ok \/ ~r.sell.hasOut)

\* C29: an error while quoting one base aborts only that base's attempt:
\* every later base is still quoted, so its acceptable round trip is
\* returned unless another base does better, and an acceptable result found
\* for an earlier base is still returned unless a later base does better.
C29_PerBaseIsolation ==
  fPc = "done" =>
    \A i \in 1..Len(BASE_MINTS) :
      QuoteFails(fResp[i]) =>
        /\ ~fCalc[i].reached
        /\ \A j \in 1..Len(BASE_MINTS) :
             LET cand == EvalBase(fToken, BASE_MINTS[j], fResp[j])
             IN (j # i /\ cand.found) =>
                  /\ fOut.found
                  /\ fOut.estimatedProfit3 >= cand.estimatedProfit3

C29_ErrorBetweenTwoRoutes ==
  /\ fPc = "done"
  /\ EvalBase(fToken, BASE_MINTS[1], fResp[1]).found
  /\ ~fResp[2].buy.ok
  /\ EvalBase(fToken, BASE_MINTS[3], fResp[3]).found
  /\ EvalBase(fToken, BASE_MINTS[3], fResp[3]).estimatedProfit3
       > EvalBase(fToken, BASE_MINTS[1], fResp[1]).estimatedProfit3
  /\ fOut = EvalBase(fToken, BASE_MINTS[3], fResp[3])

\* C30: confirmTx returns true only if a poll observed the signature
\* confirmed or finalized without error while the height was not past
\* lastValidBlockHeight; it returns false as soon as a poll observes an
\* on-chain error or a height past lastValidBlockHeight, and when the 15 s
\* budget elapses; a poll that raises an error is retried and is no
\* terminal status.
C30_ConfirmOutcomes ==
  /\ (ex = "leg_done" /\ ret[leg] = "sig") =>
       (~lastPoll.threw /\ ~lastPoll.passed /\ lastPoll.status = "landed")
  /\ (lastPoll.passed \/ lastPoll.status = "failed") =>
       (ex # "confirm" /\ ret[leg] = "null")
  /\ (lastPoll.status = "timeout") => ret[leg] = "null"
  /\ lastPoll.threw => (ex = "confirm" /\ ret[leg] = "none")

\* C31: a value returned by getDynamicTipLamports is never staler than the
\* 5-minute cache interval: the tip a newly built transaction carries was
\* fetched from the feed at most 5 minutes before the build, or no fetch
\* has ever succeeded and it is the protocol minimum; also when the feed
\* fails or answers with something that is not a number after an earlier
\* successful fetch.
C31_BoundedTipAge ==
  [][(builtTx'.built /\ builtTx' # builtTx) =>
       LET tip == builtTx'.instructions[Len(builtTx'.instructions)].lamports
       IN \/ /\ tipCacheTime' > 0
             /\ now' - tipCacheTime' <= TIP_CACHE_MS
             /\ tip = cachedTipLamports'
          \/ /\ tipCacheTime' = 0
             /\ tip = MIN_TIP_LAMPORTS]_vars

\* 2 s doubled n times
RECURSIVE Doubled(_)
Doubled(n) == IF n <= 0 THEN 2000 ELSE 2 * Doubled(n - 1)

\* C32: the watcher's socket cycles Disconnected -> Connecting ->
\* Subscribed -> Disconnected (or back to Disconnected when the connection
\* fails); every close schedules exactly one reconnect, so at most one
\* connection or pending reconnect timer exists at any time; the delay of
\* the reconnect is 2 s for the first close after an open, doubles with
\* each further close, never exceeds 60 s, and reconnectDelay is 2 s again
\* whenever a connection opens.
C32_ReconnectMachine ==
  /\ [](/\ wsSockets + wsTimers <= 1
        /\ (wsState = "Disconnected") => (wsTimers = 1 /\ wsSockets = 0)
        /\ (wsState # "Disconnected") => (wsTimers = 0 /\ wsSockets = 1)
        /\ reconnectDelay <= 60000 /\ wsScheduled <= 60000
        /\ (wsState = "Subscribed") => reconnectDelay = 2000
        /\ (wsState = "Disconnected") =>
             wsScheduled = (IF Doubled(wsCloses - 1) < 60000
                              THEN Doubled(wsCloses - 1) ELSE 60000))
  /\ [][\/ wsState = "Disconnected" /\ wsState' = "Connecting"
        \/ wsState = "Connecting" /\ wsState' = "Subscribed"
        \/ wsState = "Subscribed" /\ wsState' = "Disconnected"
        \/ wsState = "Connecting" /\ wsState' = "Disconnected"]_wsState

C32_DelayAtCap ==
  /\ wsState = "Disconnected" /\ wsCloses = 7 /\ wsScheduled = 60000

\* ------------------------------------------------------------------------
\* PerformanceTracker driven by arbitrary calls
\* ------------------------------------------------------------------------

MaxCalls == 4

\* profitSol arguments of record, in thousandths of a SOL
ProfitArgs == {0 - 2, 0, 3}

\* new PerformanceTracker() with no stats file: load() returns zeros
InitStats ==
  /\ pc = "start"
  /\ BotFields
  /\ envMissing = {} /\ shutdown = NoShutdown /\ hung = FALSE
  /\ FindIdle /\ CandIdle /\ WatchIdle /\ TipIdle /\ WsIdle /\ StratIdle
  /\ tradeLimit = MaxTrades

StatsFrame ==
  UNCHANGED <<loopVars, execVars, chainVars, entry, submits, outbox, verdict,
              stepVars, envVars, pureVars>>

\* tracker.record(success, profitSol)
TrackerRecord ==
  /\ Len(steps) < MaxCalls
  /\ \E success \in BOOLEAN, profit3 \in ProfitArgs :
       stats' = Record(stats, success, profit3)
  /\ steps' = Append(steps, "record")
  /\ StatsFrame

\* tracker.recordSimSkip()
TrackerRecordSimSkip ==
  /\ Len(steps) < MaxCalls
  /\ stats' = RecordSimSkip(stats)
  /\ steps' = Append(steps, "recordSimSkip")
  /\ StatsFrame

NextStats == TrackerRecord \/ TrackerRecordSimSkip

SpecStats == InitStats /\ [][NextStats]_vars

CallsOf(name) == Cardinality({i \in 1..Len(steps) : steps[i] = name})

\* C34: after any sequence of record and recordSimSkip calls on fresh
\* statistics, totalTrades = successfulTrades + failedTrades, netProfit =
\* totalProfit - totalLoss, simulationSkipped is the number of recordSimSkip
\* calls, and a recordSimSkip call changes no field but simulationSkipped.
C34_StatisticsInvariants ==
  /\ [](/\ stats.totalTrades = stats.successfulTrades + stats.failedTrades
        /\ stats.netProfit3 = stats.totalProfit3 - stats.totalLoss3
        /\ stats.simulationSkipped = CallsOf("recordSimSkip")
        /\ stats.totalTrades = CallsOf("record"))
  /\ [][(Len(steps') > Len(steps) /\ steps'[Len(steps')] = "recordSimSkip") =>
          stats' = [stats EXCEPT !.simulationSkipped = stats'.simulationSkipped]]_vars

C34_MixedCalls ==
  /\ CallsOf("recordSimSkip") = 2
  /\ stats.successfulTrades = 1 /\ stats.failedTrades = 1
  /\ stats.totalLoss3 = 2

\* C35: every call of execute records exactly one outcome before it
\* returns, on every path including thrown errors: when execute has
\* returned, totalTrades + simulationSkipped is one more than when it began.
C35_OneOutcomePerExecute ==
  (ex = "idle" /\ verdict # "none") =>
    stats.totalTrades + stats.simulationSkipped =
      entry.totalTrades + entry.simulationSkipped + 1

\* C36: in a run of the bot from fresh statistics totalLoss stays 0 and
\* netProfit never decreases: the only non-zero profit recorded is the
\* accepted opportunity's estimated net profit (> 0), on success; failed
\* and stranded trades are recorded with profit 0.
C36_LossesNeverRecorded ==
  /\ [](/\ stats.totalLoss3 = 0
        /\ stats.netProfit3 = stats.totalProfit3
        /\ opp # NoOpp => opp.estimatedProfit3 > 0
        /\ stats.successfulTrades = 0 => stats.totalProfit3 = 0)
  /\ [][stats'.netProfit3 >= stats.netProfit3]_vars

C36_ProfitRecorded ==
  /\ verdict = "success" /\ ex = "idle"
  /\ stats.netProfit3 = opp.estimatedProfit3 /\ stats.netProfit3 > 0

\* C37: the tip lamports buildSwapTx attaches to a transaction equal the
\* tip value findOpportunity used in the fee model when it accepted the
\* opportunity, also when the tip cache expires between the two.
C37_FeeModelMatchesTip ==
  [][(builtTx'.built /\ builtTx' # builtTx /\ feeTip > 0) =>
       builtTx'.instructions[Len(builtTx'.instructions)].lamports = feeTip]_vars

\* ------------------------------------------------------------------------
\* The two buildSwapTx calls of one execute
\* ------------------------------------------------------------------------

\* The tip cache when execute begins: never filled, filled at this moment,
\* or filled 5 minutes ago
InitBuild ==
  /\ BotInit
  /\ FindIdle
  /\ CandIdle
  /\ WatchIdle
  /\ now = 2 * TIP_CACHE_MS
  /\ \E filled \in {0, TIP_CACHE_MS, 2 * TIP_CACHE_MS} :
       /\ tipCacheTime = filled
       /\ cachedTipLamports = IF filled = 0 THEN MIN_TIP_LAMPORTS ELSE 250000
  /\ builtTx = NoTx
  /\ feeTip = 0
  /\ builds = NoBuilds

BuildFrame ==
  UNCHANGED <<botVars, procVars, findVars, candVars, watchVars, stratVars,
              runVars, wsVars, now, builtTx, feeTip>>

\* Promise.all([this.buildSwapTx(opp.buyQuote), this.buildSwapTx(
\* opp.sellQuote)]): both calls run to their first await, the swap request
BuildsStart ==
  /\ builds = NoBuilds
  /\ builds' = [l \in Legs |-> [pc |-> "swap", tip |-> 0]]
  /\ UNCHANGED <<cachedTipLamports, tipCacheTime>>
  /\ BuildFrame

\* The swap request of one call is answered; with a transaction in hand
\* the call enters getDynamicTipLamports, which returns the cached value
\* or sends the tip-floor request
BuildSwapAnswered(l) ==
  /\ builds[l].pc = "swap"
  /\ \E swap \in SwapAnswers :
       builds' = [builds EXCEPT ![l] =
                    IF swap.status # "ok" THEN [pc |-> "null", tip |-> 0]
                    ELSE IF CacheFresh(tipCacheTime, now)
                      THEN [pc |-> "built", tip |-> cachedTipLamports]
                    ELSE [pc |-> "tip_fetch", tip |-> 0]]
  /\ UNCHANGED <<cachedTipLamports, tipCacheTime>>
  /\ BuildFrame

\* The tip-floor request of one call is answered: the cache fields are
\* written and the call attaches what it returns
BuildTipAnswered(l) ==
  /\ builds[l].pc = "tip_fetch"
  /\ \E feed \in TipFeeds, logFails \in TipLogOutcomes :
       LET t == TipFetched(cachedTipLamports, tipCacheTime, now, feed, logFails)
       IN /\ cachedTipLamports' = t.cached
          /\ tipCacheTime' = t.cacheTime
          /\ builds' = [builds EXCEPT ![l] =
                          IF t.threw THEN [pc |-> "null", tip |-> 0]
                          ELSE [pc |-> "built", tip |-> t.tip]]
  /\ BuildFrame

NextBuild ==
  \/ BuildsStart
  \/ \E l \in Legs : BuildSwapAnswered(l)
  \/ \E l \in Legs : BuildTipAnswered(l)

SpecBuild == InitBuild /\ [][NextBuild]_vars

\* The tip-floor requests that are awaited
TipFetchesInFlight == {l \in Legs : builds[l].pc = "tip_fetch"}

\* C38: the buy and the sell transaction of one execute, built
\* concurrently, carry the same tip amount, and at most one tip-floor
\* fetch that writes the tip cache is in flight at a time, also when the
\* cache has expired when both builds start.
C38_ConcurrentBuildsAgree ==
  /\ Cardinality(TipFetchesInFlight) <= 1
  /\ (\A l \in Legs : builds[l].pc = "built") =>
       builds["buy"].tip = builds["sell"].tip

\* C39: a cycle of the main loop that completes without error, with or
\* without a trade, returns consecutiveFailures to zero, so failed cycles
\* separated by error-free cycles never add up to a cooldown.
C39_OnlyConsecutiveFailuresCount ==
  [][(pc = "for" /\ pc' = "while") => consecutiveFailures' = 0]_vars

\* ------------------------------------------------------------------------
\* The watcher: websocket messages and runs of pollAll interleaved
\* ------------------------------------------------------------------------

MaxMessages == 2

\* The mints the sources report
PollMints == {Mint(1), Mint(2)}

\* What a source answers: the mints of the pairs or profiles that pass its
\* filter, in order (none when the answer is not ok)
PollAnswers ==
  {<<>>, <<Mint(1)>>, <<Mint(2)>>, <<Mint(1), Mint(2)>>, <<Mint(2), Mint(1)>>,
   <<Mint(1), Mint(1)>>}

\* The watchlist file, the Set seen, the seen-set file and the mints added
Watch == [list |-> wList, seen |-> wSeen, seenFile |-> wSeenFile, added |-> wAdded]

\* One call addToWatchlist(seen, mint, ...): it runs from its read of the
\* watchlist file to its writes without an await
AddOne(w, mint, age) ==
  LET r == addToWatchlist(w.list, w.seen, w.seenFile, mint, age)
  IN [list |-> r.list, seen |-> r.seen, seenFile |-> r.seenFile,
      added |-> IF r.ret THEN w.added \cup {mint} ELSE w.added]

\* for (const pair of pairs) { ... if (mint && addToWatchlist(...)) added++ }
RECURSIVE AddEach(_, _, _)
AddEach(w, mints, age) ==
  IF mints = <<>> THEN w
  ELSE AddEach(AddOne(w, Head(mints), age), Tail(mints), age)

\* if (!mint || seen.has(mint)) continue: the profiles from the first one
\* the loop of pollBagsFm awaits a pair request for
RECURSIVE SkipSeen(_, _)
SkipSeen(mints, seen) ==
  IF mints = <<>> THEN <<>>
  ELSE IF Head(mints) \in seen THEN SkipSeen(Tail(mints), seen)
  ELSE mints

\* The loop of pollBagsFm up to its next await, or to its end
BagsLoop(mints, seen) ==
  LET rest == SkipSeen(mints, seen)
  IN IF rest = <<>> THEN [pc |-> "done", left |-> <<>>, mint |-> ""]
     ELSE [pc |-> "bags_pair", left |-> Tail(rest), mint |-> Head(rest)]

InitPoll ==
  /\ BotInit
  /\ FindIdle
  /\ CandIdle
  /\ TipIdle
  /\ wList \in {<<>>, <<[mint |-> Mint(1)]>>}
  /\ wSeenFile = {}
  /\ wSeen = {}
  /\ wOffered = 0
  /\ wMint = ""
  /\ wRet = FALSE
  /\ wPrev = <<>>
  /\ wKnown = FALSE
  /\ wProcessed = {}
  /\ wSince = <<>>
  /\ wAdds = 0
  /\ wRuns = NoRuns
  /\ wMsgs = 0
  /\ wAdded = {}

PollFrame ==
  UNCHANGED <<botVars, procVars, findVars, candVars, tipVars, stratVars, runVars,
              wsVars, wOffered, wMint, wRet, wPrev, wKnown, wProcessed, wSince,
              wAdds>>

Written(w) ==
  /\ wList' = w.list
  /\ wSeen' = w.seen
  /\ wSeenFile' = w.seenFile
  /\ wAdded' = w.added

\* ws.on('message'): a graduation message with a mint
WsGraduated ==
  /\ wMsgs < MaxMessages
  /\ \E mint \in PollMints, age \in {Age(0), Age(MAX_AGE_MS + 1)} :
       Written(AddOne(Watch, mint, age))
  /\ wMsgs' = wMsgs + 1
  /\ UNCHANGED wRuns
  /\ PollFrame

\* pollAll() is called (by main, or by the interval timer while an earlier
\* run has not ended): pollPumpFunFallback sends its request
PollAllStart(r) ==
  /\ wRuns[r].pc = "idle"
  /\ wRuns' = [wRuns EXCEPT ![r].pc = "fallback"]
  /\ UNCHANGED <<wList, wSeen, wSeenFile, wAdded, wMsgs>>
  /\ PollFrame

\* pollPumpFunFallback: the request is answered, the pairs are added;
\* pollBonkFun sends its request
PollFallbackAnswered(r) ==
  /\ wRuns[r].pc = "fallback"
  /\ \E ans \in PollAnswers : Written(AddEach(Watch, ans, Age(0)))
  /\ wRuns' = [wRuns EXCEPT ![r].pc = "bonk"]
  /\ UNCHANGED wMsgs
  /\ PollFrame

\* pollBonkFun: the request is answered, the pairs are added; pollBagsFm
\* sends its request
PollBonkAnswered(r) ==
  /\ wRuns[r].pc = "bonk"
  /\ \E ans \in PollAnswers : Written(AddEach(Watch, ans, Age(0)))
  /\ wRuns' = [wRuns EXCEPT ![r].pc = "bags"]
  /\ UNCHANGED wMsgs
  /\ PollFrame

\* pollBagsFm: the profiles arrive; the loop runs to its first pair request
PollBagsAnswered(r) ==
  /\ wRuns[r].pc = "bags"
  /\ \E ans \in PollAnswers : wRuns' = [wRuns EXCEPT ![r] = BagsLoop(ans, wSeen)]
  /\ UNCHANGED <<wList, wSeen, wSeenFile, wAdded, wMsgs>>
  /\ PollFrame

\* pollBagsFm: a pair request is answered; if (!pairRes.ok) continue, if
\* (pairs.length === 0) continue, else addToWatchlist; the loop runs on to
\* its next pair request
PollBagsPairAnswered(r) ==
  /\ wRuns[r].pc = "bags_pair"
  /\ \E usable \in BOOLEAN :
       LET w == IF usable THEN AddOne(Watch, wRuns[r].mint, Age(0)) ELSE Watch
       IN /\ Written(w)
          /\ wRuns' = [wRuns EXCEPT ![r] = BagsLoop(wRuns[r].left, w.seen)]
  /\ UNCHANGED wMsgs
  /\ PollFrame

NextPoll ==
  \/ WsGraduated
  \/ \E r \in Runs : PollAllStart(r)
  \/ \E r \in Runs : PollFallbackAnswered(r)
  \/ \E r \in Runs : PollBonkAnswered(r)
  \/ \E r \in Runs : PollBagsAnswered(r)
  \/ \E r \in Runs : PollBagsPairAnswered(r)

SpecPoll == InitPoll /\ [][NextPoll]_vars

====
